---- MODULE Spec2Model ----
(***************************************************************************)
(* State-machine model of the session and second-factor core of the       *)
(* todo backend: the user router (src/src/routers/user.rs), the Redis     *)
(* client (src/src/db/redis_client.rs), the user store                    *)
(* (src/src/db/data_trait/user_data_trait.rs) and the two-factor service  *)
(* (src/src/services/two_factor_service.rs).                              *)
(*                                                                         *)
(* Every request handler is a sequence of steps, one per await on the     *)
(* relational store or on Redis; the local computation between two awaits *)
(* belongs to the step of the await before it.  Worker tasks (Procs) run  *)
(* handlers concurrently and interleave at these steps.                   *)
(***************************************************************************)
EXTENDS Integers, Sequences, FiniteSets, TLC

\* ------------------------------------------------------------- bounds
\* Requests the workers accept in one behaviour, per specification.
MaxSessionRequests == 3
MaxLoginRequests == 3
MaxTwoFactorRequests == 4
\* Each request mints at most one token id, one user id and one set of backup
\* codes, so the largest budget bounds the id spaces.
MaxIds == 5
\* Backup codes generate_backup_codes makes per call (DEFAULT_BACKUP_CODES_COUNT
\* in the code, scaled down).
BackupCodesCount == 2

\* ------------------------------------------------------------- inputs
Procs == {"w1", "w2"}
\* Emails and passwords requests carry; accounts are registered under
\* RegEmails with RegPasswords, the rest are unknown emails and wrong passwords.
Emails == {"a@x.io", "b@x.io"}
Passwords == {"pw1", "pw2"}
RegEmails == {"a@x.io"}
RegPasswords == {"pw1"}

\* ------------------------------------------------------------- values
NoId == 0
NoCode == -1

NoToken == [sub |-> NoId, token_type |-> "none", user_id |-> NoId, exp |-> 0]

\* bcrypt: a digest is well formed (here a one-element tuple holding what it
\* was made from) or malformed; the empty string is malformed.
EmptyString == <<>>

Hash(pw) == <<pw>>

\* bcrypt::verify: Err on a digest that is not a bcrypt string, else the match.
Verify(pw, digest) ==
    IF Len(digest) = 0 THEN "err"
    ELSE IF digest[1] = pw THEN "match" ELSE "nomatch"

NoUser ==
    [uuid |-> NoId, email |-> "", password |-> EmptyString,
     two_factor_enabled |-> FALSE, two_factor_secret |-> NoId,
     backup_codes_some |-> FALSE, backup_codes |-> <<>>]

\* A row as create_user inserts it.
NewRow(uuid, email, digest) ==
    [uuid |-> uuid, email |-> email, password |-> digest,
     two_factor_enabled |-> FALSE, two_factor_secret |-> NoId,
     backup_codes_some |-> FALSE, backup_codes |-> <<>>]

\* User::new: the password field is String::new().
UserNew(uuid, email) == NewRow(uuid, email, EmptyString)

\* ------------------------------------------------------------- state
VARIABLES
    users,        \* User Store: uuid -> row
    tokenState,   \* Redis: token_id -> user_id records (store_token_state)
    tokenExpires, \* Redis: token_id -> the time the record's EX ttl runs out
    userCache,    \* Redis: "user:email:<email>" -> cached User, or NoUser
    now,          \* wall clock, seconds since the epoch
    pc,           \* per worker: the await it is suspended at
    loc,          \* per worker: the handler's local variables
    resp,         \* per worker: the response of the finished request
    budget,       \* requests the workers may still accept
    nextToken,    \* the token id the next generate_token_pair draws
    issued,       \* tokens handed to callers in a response
    connection_manager, \* RedisClient: the mutex and the Option it guards
    redeemCount,  \* token_id -> successful validate_refresh_token results
    nextGen,      \* the next call of two_factor_service::generate_backup_codes
    shown,        \* backup codes shown to a user, as formatted for display
    regenDone,    \* newest code generation whose generate_backup_codes returned
    enrolled,     \* uuid -> "none", "loggedIn" (a login without a second factor
                  \* succeeded), "enabledAfterLogin" (then enable_2fa succeeded)
    probe,        \* the last application of a pure function, with its result
    todos,        \* Todo Store: todo uuid -> row
    cache,        \* Redis: cache key -> entry written by set_cached
    nextTodo,     \* the uuid the next add_todo draws
    dbVersion,    \* writes the Todo Store has committed
    shadow        \* cache key -> what the last set_cached / delete left there

vars == <<users, tokenState, tokenExpires, userCache, now, pc, loc, resp, budget, nextToken,
          issued, connection_manager, redeemCount, nextGen, shown, regenDone, enrolled, probe,
          todos, cache, nextTodo, dbVersion, shadow>>

\* Frames: the clock, the request budget and the pure-function probe; the
\* backup-code bookkeeping.
env == <<now, budget, probe>>
codes == <<nextGen, shown, regenDone>>
\* The Todo Store and the cache of its views.
todoVars == <<todos, cache, nextTodo, dbVersion, shadow>>

TokenIds == 1 .. MaxIds
UserIds == 1 .. MaxIds

NoResp == [status |-> "none", msg |-> "", access |-> NoToken, refresh |-> NoToken]

NoLoc ==
    [kind |-> "none", email |-> "", password |-> "", code |-> NoCode,
     uuid |-> NoId, token |-> NoToken, user |-> NoUser, digest |-> EmptyString,
     stored |-> NoId, redeem |-> "none", pair |-> NoResp, redisOk |-> TRUE,
     hit |-> FALSE, secret |-> NoId, bcode |-> <<>>, index |-> 0, gen |-> 0,
     regenAtReturn |-> 0, row0 |-> NoUser, phase0 |-> "none", storeOk |-> "none",
     redeemUser |-> NoId, wrote |-> "none", taken |-> FALSE,
     priorRedeems |-> 0, cacheRead |-> "none", setOk |-> "none", why |-> "none",
     manager |-> NoId, caller |-> "none"]

\* RedisClient::connection_manager, an Arc<Mutex<Option<ConnectionManager>>>:
\* the task holding the mutex, the manager in the Option (NoId for None), and
\* the number of ConnectionManager::new calls that have succeeded.
NoConnection == [holder |-> "none", slot |-> NoId, created |-> 0]
\* After a check_connection at startup that reached the cache store.
Connected == [holder |-> "none", slot |-> 1, created |-> 1]

\* No pure function applied yet.
NoProbe == [fn |-> "none", secret |-> NoId, code |-> NoCode, offset |-> 0,
            altered |-> FALSE, result |-> FALSE]

\* A lookup that finds nobody.
GetUserByEmailNobody(email) == NoUser

\* ------------------------------------------------------------- user store
\* SELECT ... WHERE email = $1, fetch_optional: a row or none.
GetUserByEmail(email) ==
    IF \E u \in UserIds : users[u].email = email
    THEN users[CHOOSE u \in UserIds : users[u].email = email]
    ELSE NoUser

\* SELECT ... WHERE uuid = $1, fetch_optional.
GetUserByUuid(uuid) ==
    IF uuid \in UserIds THEN users[uuid] ELSE NoUser

\* Uuid::new_v4 in register: an id no row has.
NewUuid == CHOOSE u \in UserIds : users[u] = NoUser /\ \A v \in 1 .. (u - 1) : users[v] # NoUser

\* ------------------------------------------------------------- tokens
\* generate_token_pair: an access token lives 1 hour, a refresh token 24 * 7
\* hours, and the token_id record is stored with EX 7 * 24 * 60 * 60.
ACCESS_HOURS == 1
REFRESH_HOURS == 168
REFRESH_TTL == 604800

\* generate_jwt_token(subject, token_type, hours, user_id): the signed claims,
\* exp = Utc::now() + hours.
GenerateJwtToken(subject, token_type, user_id) ==
    [sub |-> subject, token_type |-> token_type, user_id |-> user_id,
     exp |-> now + 3600 * (IF token_type = "access" THEN ACCESS_HOURS
                           ELSE REFRESH_HOURS)]

\* Validation::default(): a token is expired once exp lies more than the
\* leeway behind the clock.
Leeway == 60

\* decode::<Claims>(token, key, &Validation::default()) returns Ok.
Decodes(token, time) == token.token_type # "none" /\ token.exp >= time - Leeway

ValidateClaimsExpiredApart(token, time) ==
    IF ~Decodes(token, time) THEN "ExpiredRefreshToken"
    ELSE IF token.token_type # "refresh" THEN "InvalidRefreshToken"
    ELSE IF token.user_id = NoId THEN "InvalidRefreshToken"
    ELSE "ok"

\* validate_refresh_token before its call of the cache store: the decode, the
\* token_type test and the user_id claim.
ValidateClaims(token, time) ==
    IF ~Decodes(token, time) THEN "InvalidRefreshToken"
    ELSE IF token.token_type # "refresh" THEN "InvalidRefreshToken"
    ELSE IF token.user_id = NoId THEN "InvalidRefreshToken"
    ELSE "ok"

\* GET token_id: the stored user id, or nothing once the record's ttl is over.
GetTokenState(state, expires, token_id, time) ==
    IF state[token_id] # NoId /\ time < expires[token_id] THEN state[token_id]
    ELSE NoId

AccessTokenOf(user_id) == GenerateJwtToken(user_id, "access", NoId)
RefreshTokenOf(token_id, user_id) == GenerateJwtToken(token_id, "refresh", user_id)


\* store_token_state: SET token_id user_id EX ttl.
StoreTokenState(state, token_id, user_id) == [state EXCEPT ![token_id] = user_id]

\* generate_token_pair without the `?` on store_token_state: the pair whether
\* or not the record was stored.
TokenPairResultUnchecked(stored, token_id, user_id) ==
    [status |-> "ok", msg |-> "", access |-> AccessTokenOf(user_id),
     refresh |-> RefreshTokenOf(token_id, user_id)]

\* A result that reports InvalidCredentials once the record is stored.
TokenPairResultDenied(stored, token_id, user_id) ==
    IF stored
    THEN [NoResp EXCEPT !.status = "InvalidCredentials"]
    ELSE [NoResp EXCEPT !.status = "TokenCreationFailure"]

\* What generate_token_pair returns: the pair once the record is stored
\* (stored = the SET succeeded), TokenCreationFailure otherwise.
TokenPairResult(stored, token_id, user_id) ==
    IF stored
    THEN [status |-> "ok", msg |-> "", access |-> AccessTokenOf(user_id),
          refresh |-> RefreshTokenOf(token_id, user_id)]
    ELSE [NoResp EXCEPT !.status = "TokenCreationFailure"]

\* An error response of kind `kind`; UserError::BadRequest carries a message.
Failure(kind) == [NoResp EXCEPT !.status = kind]
BadRequest(msg) == [NoResp EXCEPT !.status = "BadRequest", !.msg = msg]
\* A success that carries no tokens.
Success == [NoResp EXCEPT !.status = "ok"]

\* ------------------------------------------------------------- steps
Idle(p) == pc[p] \in {"idle", "done"}

\* Workers are interchangeable: a request goes to the first idle worker.
FirstIdle(p) == Idle(p) /\ (p = "w2" => ~Idle("w1"))

\* A worker accepts a request: its locals start afresh.
Accept(p, label, l) ==
    /\ FirstIdle(p)
    /\ budget > 0
    /\ budget' = budget - 1
    /\ pc' = [pc EXCEPT ![p] = label]
    /\ loc' = [loc EXCEPT ![p] = l]
    /\ resp' = [resp EXCEPT ![p] = NoResp]
    /\ UNCHANGED <<todoVars, users, tokenState, tokenExpires, userCache, now, probe, nextToken, issued, connection_manager,
                   redeemCount, codes, enrolled>>

\* The handler returns r to the caller.
Return(p, r) ==
    /\ pc' = [pc EXCEPT ![p] = "done"]
    /\ resp' = [resp EXCEPT ![p] = r]
    /\ issued' = issued \cup ({r.access, r.refresh} \ {NoToken})
    /\ UNCHANGED connection_manager

Goto(p, label) ==
    /\ pc' = [pc EXCEPT ![p] = label]
    /\ UNCHANGED <<resp, issued, connection_manager>>

\* generate_token_pair: mint both tokens, then store the token_id -> user_id
\* record (the SET may fail); the pair, or TokenCreationFailure, is left in
\* the handler's locals.
StorePair(user_id, redisOk) ==
    /\ nextToken' = nextToken + 1
    /\ tokenState' = IF redisOk THEN StoreTokenState(tokenState, nextToken, user_id)
                     ELSE tokenState
    /\ tokenExpires' = IF redisOk THEN [tokenExpires EXCEPT ![nextToken] = now + REFRESH_TTL]
                       ELSE tokenExpires

GenerateTokenPair(p, user_id, redisOk) ==
    /\ StorePair(user_id, redisOk)
    /\ loc' = [loc EXCEPT ![p].pair = TokenPairResult(redisOk, nextToken, user_id),
                          ![p].redisOk = @ /\ redisOk,
                          ![p].storeOk = IF redisOk THEN "ok" ELSE "failed"]

\* ------------------------------------------------------------- TOTP
TOTP_PERIOD == 30
TOTP_SKEW == 1
\* The skew create_totp hands to TOTP::new.
TotpSkewArg == 1
Digits == 1000000

Secrets == {1, 2}

\* TOTP::generate: the 6-digit code of the step holding `time`.  The HMAC-SHA1
\* truncation is replaced by a mixing function of (secret, step counter) that
\* is injective on the steps and secrets of the model.
TotpGenerate(secret, time) ==
    (secret * 7919 + (time \div TOTP_PERIOD) * 104729) % Digits

\* TOTP::check(token, time) of totp_rs: the steps basestep .. basestep + 2*skew,
\* where basestep = time / step - skew.
TotpCheck(secret, code, time) ==
    LET basestep == (time \div TOTP_PERIOD) - TotpSkewArg IN
    \E i \in 0 .. (2 * TotpSkewArg) :
        TotpGenerate(secret, (basestep + i) * TOTP_PERIOD) = code

SaturatingSub(a, b) == IF a >= b THEN a - b ELSE 0

\* A verification that refuses a code some answered request already passed
\* with.
VerifyTotpOnce(secret, code, time) ==
    /\ \E i \in 0 .. TOTP_SKEW :
          \/ TotpCheck(secret, code, SaturatingSub(time, i * TOTP_PERIOD))
          \/ TotpCheck(secret, code, time + i * TOTP_PERIOD)
    /\ ~\E q \in Procs :
          pc[q] = "done" /\ loc[q].code = code /\ resp[q].status = "ok"

\* verify_totp at wall-clock time `time`.
VerifyTotp(secret, code, time) ==
    \E i \in 0 .. TOTP_SKEW :
        \/ TotpCheck(secret, code, SaturatingSub(time, i * TOTP_PERIOD))
        \/ TotpCheck(secret, code, time + i * TOTP_PERIOD)

\* login, after the password matched: the second-factor check.
TwoFactorGate(user, code, time) ==
    IF ~user.two_factor_enabled THEN "pass"
    ELSE IF code = NoCode THEN "TwoFactorRequired"
    ELSE IF user.two_factor_secret = NoId THEN "TwoFactorRequired"
    ELSE IF VerifyTotp(user.two_factor_secret, code, time) THEN "pass"
    ELSE "InvalidTwoFactorCode"

\* The codes a client may present: the code an authenticator holding a
\* stored secret shows now, or a code no authenticator shows.
BadCode == 0
CodeInputs ==
    {TotpGenerate(users[u].two_factor_secret, now) :
        u \in {v \in UserIds : users[v].two_factor_secret # NoId}} \cup {BadCode}

\* ------------------------------------------------------------- register
StartRegister(p) ==
    \E e \in RegEmails, pw \in RegPasswords :
        Accept(p, "reg_check", [NoLoc EXCEPT !.kind = "register", !.email = e,
                                             !.password = pw,
                                             !.taken = \E u \in UserIds :
                                                          users[u].email = e])

\* get_user_by_email: only Ok(_) ends the request; then the password is hashed.
RegCheck(p) ==
    /\ pc[p] = "reg_check"
    /\ IF GetUserByEmail(loc[p].email) # NoUser
       THEN /\ Return(p, Failure("UserAlreadyExists"))
            /\ UNCHANGED loc
       ELSE /\ Goto(p, "reg_create")
            /\ loc' = [loc EXCEPT ![p].digest = Hash(loc[p].password)]
    /\ UNCHANGED <<todoVars, users, tokenState, tokenExpires, userCache, env, nextToken, redeemCount, codes, enrolled>>

\* Database::create_user, its SELECT uuid FROM users WHERE email = $1.
RegCreate(p) ==
    /\ pc[p] = "reg_create"
    /\ IF GetUserByEmail(loc[p].email) # NoUser
       THEN Return(p, Failure("UserAlreadyExists"))
       ELSE Goto(p, "reg_insert")
    /\ UNCHANGED <<todoVars, loc, users, tokenState, tokenExpires, userCache, env, nextToken, redeemCount, codes, enrolled>>

\* The users table holds at most one row per email: an INSERT of an email
\* that a row already has is refused.
UniqueViolation(table, email) == \E u \in UserIds : table[u].email = email

\* Database::create_user, its INSERT: any Err is UserCreationFailure.
RegInsert(p) ==
    /\ pc[p] = "reg_insert"
    /\ IF UniqueViolation(users, loc[p].email)
       THEN /\ Return(p, Failure("UserCreationFailure"))
            /\ UNCHANGED <<loc, users>>
       ELSE /\ Goto(p, "reg_token")
            /\ users' = [users EXCEPT ![NewUuid] =
                            NewRow(NewUuid, loc[p].email, loc[p].digest)]
            /\ loc' = [loc EXCEPT ![p].uuid = NewUuid]
    /\ UNCHANGED <<todoVars, tokenState, tokenExpires, userCache, env, nextToken, redeemCount, codes, enrolled>>

RegToken(p) ==
    /\ pc[p] = "reg_token"
    /\ \E redisOk \in BOOLEAN :
        /\ GenerateTokenPair(p, loc[p].uuid, redisOk)
        /\ IF redisOk THEN Goto(p, "reg_cache")
           ELSE Return(p, Failure("TokenCreationFailure"))
    /\ UNCHANGED <<todoVars, users, userCache, env, redeemCount, codes, enrolled>>

\* set_cached("user:email:<email>", User::new(..)): a failure is only logged.
RegCache(p) ==
    /\ pc[p] = "reg_cache"
    /\ \E redisOk \in BOOLEAN :
        /\ userCache' = IF redisOk
                        THEN [userCache EXCEPT ![loc[p].email] =
                                 UserNew(loc[p].uuid, loc[p].email)]
                        ELSE userCache
        /\ loc' = [loc EXCEPT ![p].redisOk = @ /\ redisOk,
                              ![p].setOk = IF redisOk THEN "ok" ELSE "failed"]
    /\ Return(p, loc[p].pair)
    /\ UNCHANGED <<todoVars, users, tokenState, tokenExpires, env, nextToken, redeemCount, codes, enrolled>>

\* ------------------------------------------------------------- login
StartLogin(p) ==
    \E e \in Emails, pw \in Passwords, c \in CodeInputs \cup {NoCode} :
        Accept(p, "login_cache",
               [NoLoc EXCEPT !.kind = "login", !.email = e, !.password = pw, !.code = c,
                             !.row0 = GetUserByEmail(e),
                             !.phase0 = IF GetUserByEmail(e) = NoUser THEN "none"
                                        ELSE enrolled[GetUserByEmail(e).uuid]])

\* After the password matched: the second-factor check, then on to
\* generate_token_pair.
LoginGate(p, user) ==
    LET g == TwoFactorGate(user, loc[p].code, now) IN
    IF g = "pass" THEN Goto(p, "login_token") ELSE Return(p, Failure(g))

\* get_cached::<User>; a hit is verified against the cached digest.
LoginCache(p) ==
    /\ pc[p] = "login_cache"
    /\ \E redisOk \in BOOLEAN :
        LET cached == IF redisOk THEN userCache[loc[p].email] ELSE NoUser
            v == Verify(loc[p].password, cached.password)
        IN  /\ loc' = [loc EXCEPT ![p].redisOk = @ /\ redisOk, ![p].user = cached,
                                  ![p].hit = (cached # NoUser),
                                  ![p].cacheRead = IF ~redisOk THEN "failed"
                                                   ELSE IF cached = NoUser THEN "miss"
                                                   ELSE "hit"]
            /\ IF cached = NoUser THEN Goto(p, "login_db")
               ELSE IF v = "err" THEN Return(p, Failure("AuthenticationFailure"))
               ELSE IF v = "nomatch" THEN Return(p, Failure("InvalidCredentials"))
               ELSE LoginGate(p, cached)
    /\ UNCHANGED <<todoVars, users, tokenState, tokenExpires, userCache, env, nextToken, redeemCount, codes, enrolled>>

\* The miss path: get_user_by_email and the password check.
LoginDb(p) ==
    /\ pc[p] = "login_db"
    /\ LET user == GetUserByEmail(loc[p].email)
           v == Verify(loc[p].password, user.password)
       IN  /\ loc' = [loc EXCEPT ![p].user = user]
           /\ IF user = NoUser THEN Return(p, Failure("InvalidCredentials"))
              ELSE IF v = "err" THEN Return(p, Failure("AuthenticationFailure"))
              ELSE IF v = "nomatch" THEN Return(p, Failure("InvalidCredentials"))
              ELSE Goto(p, "login_setcache")
    /\ UNCHANGED <<todoVars, users, tokenState, tokenExpires, userCache, env, nextToken, redeemCount, codes, enrolled>>

\* set_cached(cache_key, &user): best effort, then the second-factor check.
LoginSetCache(p) ==
    /\ pc[p] = "login_setcache"
    /\ \E redisOk \in BOOLEAN :
        /\ userCache' = IF redisOk
                        THEN [userCache EXCEPT ![loc[p].email] = loc[p].user]
                        ELSE userCache
        /\ loc' = [loc EXCEPT ![p].redisOk = @ /\ redisOk,
                              ![p].setOk = IF redisOk THEN "ok" ELSE "failed"]
    /\ LoginGate(p, loc[p].user)
    /\ UNCHANGED <<todoVars, users, tokenState, tokenExpires, env, nextToken, redeemCount, codes, enrolled>>

LoginToken(p) ==
    /\ pc[p] = "login_token"
    /\ \E redisOk \in BOOLEAN :
        /\ GenerateTokenPair(p, loc[p].user.uuid, redisOk)
        /\ Return(p, TokenPairResult(redisOk, nextToken, loc[p].user.uuid))
        /\ enrolled' = IF redisOk /\ loc[p].code = NoCode
                           /\ enrolled[loc[p].user.uuid] = "none"
                        THEN [enrolled EXCEPT ![loc[p].user.uuid] = "loggedIn"]
                        ELSE enrolled
    /\ UNCHANGED <<todoVars, users, userCache, env, redeemCount, codes>>

\* ------------------------------------------------------------- refresh
\* A DEL that removes nothing.
DelTokenKeepsRecord(state, token_id) == state

\* DEL token_id.
DelToken(state, token_id) == [state EXCEPT ![token_id] = NoId]

RedeemOutcomeUnchecked(stored_user_id, user_id) == "ok"

\* validate_refresh_token once GET and DEL both answered: the stored user id
\* against the token's user_id claim.
RedeemOutcome(stored_user_id, user_id) ==
    IF stored_user_id # user_id THEN "InvalidRefreshToken" ELSE "ok"

StartRefresh(p) ==
    \E t \in issued :
        Accept(p, "ref_get",
               [NoLoc EXCEPT !.kind = "refresh", !.token = t,
                             !.priorRedeems = redeemCount[t.sub]])

\* validate_refresh_token up to the GET of validate_and_invalidate_token.
RefGet(p) ==
    /\ pc[p] = "ref_get"
    /\ LET t == loc[p].token
           v == ValidateClaims(t, now)
           found == GetTokenState(tokenState, tokenExpires, t.sub, now)
       IN
       IF v # "ok"
       THEN /\ loc' = [loc EXCEPT ![p].redeem = v,
                                  ![p].why = IF Decodes(t, now) THEN "claims"
                                             ELSE "expired"]
            /\ Return(p, Failure(v))
       ELSE \E redisOk \in BOOLEAN :
            IF ~redisOk
            THEN /\ loc' = [loc EXCEPT ![p].redeem = "AuthenticationFailure",
                                       ![p].redisOk = FALSE]
                 /\ Return(p, Failure("AuthenticationFailure"))
            ELSE IF found = NoId
            THEN /\ loc' = [loc EXCEPT ![p].redeem = "InvalidRefreshToken",
                                       ![p].why = IF tokenState[t.sub] = NoId
                                                  THEN "norecord" ELSE "ttl"]
                 /\ Return(p, Failure("InvalidRefreshToken"))
            ELSE /\ loc' = [loc EXCEPT ![p].stored = found]
                 /\ Goto(p, "ref_del")
    /\ UNCHANGED <<todoVars, users, tokenState, tokenExpires, userCache, env, nextToken, redeemCount, codes, enrolled>>

\* The DEL that follows a GET which found the record, then the comparison in
\* validate_refresh_token.
RefDel(p) ==
    /\ pc[p] = "ref_del"
    /\ LET t == loc[p].token
           r == RedeemOutcome(loc[p].stored, t.user_id)
       IN  \E redisOk \in BOOLEAN :
           IF ~redisOk
           THEN /\ loc' = [loc EXCEPT ![p].redeem = "AuthenticationFailure",
                                      ![p].redisOk = FALSE]
                /\ Return(p, Failure("AuthenticationFailure"))
                /\ UNCHANGED <<tokenState, tokenExpires, redeemCount>>
           ELSE /\ tokenState' = DelToken(tokenState, t.sub)
                /\ tokenExpires' = IF tokenState'[t.sub] = NoId
                                   THEN [tokenExpires EXCEPT ![t.sub] = 0]
                                   ELSE tokenExpires
                /\ loc' = [loc EXCEPT ![p].redeem = r,
                                      ![p].redeemUser = IF r = "ok" THEN t.user_id ELSE NoId]
                /\ IF r = "ok"
                   THEN /\ redeemCount' = [redeemCount EXCEPT ![t.sub] = @ + 1]
                        /\ Goto(p, "ref_user")
                   ELSE /\ Return(p, Failure(r))
                        /\ UNCHANGED redeemCount
    /\ UNCHANGED <<todoVars, users, userCache, env, nextToken, codes, enrolled>>

\* refresh_token_endpoint: get_user_by_uuid(&user_id)?
RefUser(p) ==
    /\ pc[p] = "ref_user"
    /\ LET user == GetUserByUuid(loc[p].token.user_id) IN
       /\ loc' = [loc EXCEPT ![p].user = user]
       /\ IF user = NoUser THEN Return(p, Failure("NoSuchUserFound"))
          ELSE Goto(p, "ref_token")
    /\ UNCHANGED <<todoVars, users, tokenState, tokenExpires, userCache, env, nextToken, redeemCount, codes, enrolled>>

RefToken(p) ==
    /\ pc[p] = "ref_token"
    /\ \E redisOk \in BOOLEAN :
        /\ GenerateTokenPair(p, loc[p].user.uuid, redisOk)
        /\ Return(p, TokenPairResult(redisOk, nextToken, loc[p].user.uuid))
    /\ UNCHANGED <<todoVars, users, userCache, env, redeemCount, codes, enrolled>>

\* ------------------------------------------------------------- user store writes
\* Database::update_user: UPDATE ... SET every column from the given User
\* WHERE uuid = $7.
UpdateUser(table, user) == [table EXCEPT ![user.uuid] = user]

\* Database::enable_2fa: SET two_factor_secret = $1, two_factor_enabled = true.
DbEnable2fa(table, uuid, secret) ==
    [table EXCEPT ![uuid].two_factor_secret = secret,
                  ![uuid].two_factor_enabled = TRUE]

\* Database::verify_2fa: SET two_factor_enabled = true.
DbVerify2fa(table, uuid) == [table EXCEPT ![uuid].two_factor_enabled = TRUE]

\* A disable that also drops the backup codes.
DbDisable2faDropsCodes(table, uuid) ==
    [table EXCEPT ![uuid].two_factor_secret = NoId,
                  ![uuid].two_factor_enabled = FALSE,
                  ![uuid].backup_codes_some = FALSE,
                  ![uuid].backup_codes = <<>>]

\* Database::disable_2fa: SET two_factor_secret = NULL, two_factor_enabled = false.
DbDisable2fa(table, uuid) ==
    [table EXCEPT ![uuid].two_factor_secret = NoId,
                  ![uuid].two_factor_enabled = FALSE]

\* The uuid path parameters a client sends: a known user, or the first id
\* no user has.
UuidInputs == {u \in UserIds : u = 1 \/ users[u - 1] # NoUser}

\* ------------------------------------------------------------- enable_2fa
StartEnable2fa(p) ==
    \E u \in UuidInputs, pw \in Passwords :
        Accept(p, "en_get", [NoLoc EXCEPT !.kind = "enable_2fa", !.uuid = u,
                                          !.password = pw])

\* get_user_by_uuid, the password and already-enabled checks, generate_secret.
EnGet(p) ==
    /\ pc[p] = "en_get"
    /\ LET user == GetUserByUuid(loc[p].uuid)
           v == Verify(loc[p].password, user.password)
       IN  IF user = NoUser THEN Return(p, Failure("NoSuchUserFound")) /\ UNCHANGED loc
           ELSE IF v = "err" THEN Return(p, Failure("AuthenticationFailure")) /\ UNCHANGED loc
           ELSE IF v = "nomatch" THEN Return(p, Failure("InvalidCredentials")) /\ UNCHANGED loc
           ELSE IF user.two_factor_enabled
           THEN Return(p, Failure("TwoFactorAlreadyEnabled")) /\ UNCHANGED loc
           ELSE \E s \in Secrets :
                /\ loc' = [loc EXCEPT ![p].user = user, ![p].secret = s]
                /\ Goto(p, "en_write")
    /\ UNCHANGED <<todoVars, users, tokenState, tokenExpires, userCache, env, nextToken, redeemCount, codes, enrolled>>

EnWrite(p) ==
    /\ pc[p] = "en_write"
    /\ users' = DbEnable2fa(users, loc[p].uuid, loc[p].secret)
    /\ Return(p, Success)
    /\ enrolled' = IF enrolled[loc[p].uuid] = "loggedIn"
                    THEN [enrolled EXCEPT ![loc[p].uuid] = "enabledAfterLogin"]
                    ELSE enrolled
    /\ UNCHANGED <<todoVars, loc, tokenState, tokenExpires, userCache, env, nextToken, redeemCount, codes>>

\* ------------------------------------------------------------- disable_2fa
StartDisable2fa(p) ==
    \E u \in UuidInputs, pw \in Passwords, c \in CodeInputs :
        Accept(p, "dis_get", [NoLoc EXCEPT !.kind = "disable_2fa", !.uuid = u,
                                           !.password = pw, !.code = c])

DisGet(p) ==
    /\ pc[p] = "dis_get"
    /\ LET user == GetUserByUuid(loc[p].uuid)
           v == Verify(loc[p].password, user.password)
       IN  /\ loc' = [loc EXCEPT ![p].user = user]
           /\ IF user = NoUser THEN Return(p, Failure("NoSuchUserFound"))
              ELSE IF v = "err" THEN Return(p, Failure("AuthenticationFailure"))
              ELSE IF v = "nomatch" THEN Return(p, Failure("InvalidCredentials"))
              ELSE IF ~user.two_factor_enabled \/ user.two_factor_secret = NoId
              THEN Return(p, Failure("TwoFactorNotEnabled"))
              ELSE IF ~VerifyTotp(user.two_factor_secret, loc[p].code, now)
              THEN Return(p, Failure("InvalidTwoFactorCode"))
              ELSE Goto(p, "dis_write")
    /\ UNCHANGED <<todoVars, users, tokenState, tokenExpires, userCache, env, nextToken, redeemCount, codes, enrolled>>

DisWrite(p) ==
    /\ pc[p] = "dis_write"
    /\ users' = DbDisable2fa(users, loc[p].uuid)
    /\ Return(p, Success)
    /\ UNCHANGED <<todoVars, loc, tokenState, tokenExpires, userCache, env, nextToken, redeemCount, codes, enrolled>>

\* ------------------------------------------------------------- verify_2fa
StartVerify2fa(p) ==
    \E u \in UuidInputs, c \in CodeInputs :
        Accept(p, "ver_get", [NoLoc EXCEPT !.kind = "verify_2fa", !.uuid = u,
                                           !.code = c])

VerGet(p) ==
    /\ pc[p] = "ver_get"
    /\ LET user == GetUserByUuid(loc[p].uuid) IN
       /\ loc' = [loc EXCEPT ![p].user = user]
       /\ IF user = NoUser THEN Return(p, Failure("NoSuchUserFound"))
          ELSE IF user.two_factor_secret = NoId
          THEN Return(p, Failure("TwoFactorNotEnabled"))
          ELSE IF ~VerifyTotp(user.two_factor_secret, loc[p].code, now)
          THEN Return(p, Failure("InvalidTwoFactorCode"))
          ELSE Goto(p, "ver_write")
    /\ UNCHANGED <<todoVars, users, tokenState, tokenExpires, userCache, env, nextToken, redeemCount, codes, enrolled>>

VerWrite(p) ==
    /\ pc[p] = "ver_write"
    /\ users' = DbVerify2fa(users, loc[p].uuid)
    /\ Return(p, Success)
    /\ UNCHANGED <<todoVars, loc, tokenState, tokenExpires, userCache, env, nextToken, redeemCount, codes, enrolled>>

\* ------------------------------------------------------------- backup codes
\* Characters of a code (BACKUP_CODE_LENGTH in the code, scaled down).
BackupCodeLength == 2
Dash == 0

\* The i-th code of the g-th call of generate_backup_codes: random in the
\* code, so no two calls and no two positions yield the same code.
PlainCode(g, i) ==
    [k \in 1 .. BackupCodeLength |-> IF k = 1 THEN g ELSE IF k = 2 THEN i ELSE 1]

\* hex(SHA-256(code)).
Sha256Hex(code) == [sha256 |-> code]

\* two_factor_service::generate_backup_codes: (plain_codes, hashed_codes).
GenerateBackupCodes(g) ==
    [plain |-> [i \in 1 .. BackupCodesCount |-> PlainCode(g, i)],
     hashed |-> [i \in 1 .. BackupCodesCount |-> Sha256Hex(PlainCode(g, i))]]

\* format_backup_code: "abcdefghij" -> "abcde-fghij".
FormatBackupCode(code) ==
    IF Len(code) >= BackupCodeLength
    THEN SubSeq(code, 1, BackupCodeLength \div 2) \o <<Dash>>
         \o SubSeq(code, BackupCodeLength \div 2 + 1, Len(code))
    ELSE code

\* body.backup_code.replace("-", "")
NotDash(c) == c # Dash
StripDashes(code) == SelectSeq(code, NotDash)

\* verify_backup_code: the position of the input's digest, 0 for None.
VerifyBackupCode(code, hashed_codes) ==
    LET hits == {i \in 1 .. Len(hashed_codes) : hashed_codes[i] = Sha256Hex(code)} IN
    IF hits = {} THEN 0 ELSE CHOOSE i \in hits : \A j \in hits : i <= j

\* A removal that removes nothing.
RemoveNothing(seq, i) == seq

\* Vec::remove(index).
RemoveAt(seq, i) == SubSeq(seq, 1, i - 1) \o SubSeq(seq, i + 1, Len(seq))

\* A code no call of generate_backup_codes made.
BadBackupCode == <<9, Dash, 9>>

\* ------------------------------------------------------------- generate_backup_codes
StartGenCodes(p) ==
    \E u \in UuidInputs, c \in CodeInputs :
        Accept(p, "gbc_get", [NoLoc EXCEPT !.kind = "generate_backup_codes",
                                           !.uuid = u, !.code = c])

GbcGet(p) ==
    /\ pc[p] = "gbc_get"
    /\ LET user == GetUserByUuid(loc[p].uuid) IN
       /\ loc' = [loc EXCEPT ![p].user = user, ![p].row0 = user]
       /\ IF user = NoUser THEN Return(p, Failure("NoSuchUserFound"))
          ELSE IF ~user.two_factor_enabled
          THEN Return(p, BadRequest("2FA is not enabled for this user"))
          ELSE IF user.two_factor_secret = NoId
          THEN Return(p, BadRequest("2FA secret not found"))
          ELSE IF ~VerifyTotp(user.two_factor_secret, loc[p].code, now)
          THEN Return(p, BadRequest("Invalid 2FA code"))
          ELSE Goto(p, "gbc_clear")
    /\ UNCHANGED <<todoVars, users, tokenState, tokenExpires, userCache, env, nextToken, redeemCount, codes, enrolled>>

\* updated_user.backup_codes = None; update_user(&updated_user)
GbcClear(p) ==
    /\ pc[p] = "gbc_clear"
    /\ LET updated == [loc[p].user EXCEPT !.backup_codes_some = FALSE,
                                         !.backup_codes = <<>>]
       IN  /\ users' = UpdateUser(users, updated)
           /\ loc' = [loc EXCEPT ![p].user = updated]
    /\ Goto(p, "gbc_write")
    /\ UNCHANGED <<todoVars, tokenState, tokenExpires, userCache, env, nextToken, redeemCount, codes, enrolled>>

\* The new codes, the second update_user, and the response showing the codes.
GbcWrite(p) ==
    /\ pc[p] = "gbc_write"
    /\ LET new == GenerateBackupCodes(nextGen)
           updated == [loc[p].user EXCEPT !.backup_codes_some = TRUE,
                                         !.backup_codes = new.hashed]
       IN  /\ users' = UpdateUser(users, updated)
           /\ loc' = [loc EXCEPT ![p].user = updated, ![p].gen = nextGen]
           /\ shown' = shown \cup {FormatBackupCode(new.plain[i]) :
                                      i \in 1 .. BackupCodesCount}
    /\ nextGen' = nextGen + 1
    /\ regenDone' = nextGen
    /\ Return(p, Success)
    /\ UNCHANGED <<todoVars, tokenState, tokenExpires, userCache, env, nextToken, redeemCount, enrolled>>

\* ------------------------------------------------------------- login_with_backup_code
StartBackupLogin(p) ==
    \E e \in Emails, pw \in Passwords, c \in shown \cup {BadBackupCode} :
        Accept(p, "bk_get", [NoLoc EXCEPT !.kind = "login_with_backup_code",
                                          !.email = e, !.password = pw, !.bcode = c,
                                          !.row0 = GetUserByEmail(e)])

\* get_user_by_email(..)?, the password check, the 2FA and code-set checks,
\* verify_backup_code.
BkGet(p) ==
    /\ pc[p] = "bk_get"
    /\ LET user == GetUserByEmail(loc[p].email)
           v == Verify(loc[p].password, user.password)
           index == VerifyBackupCode(StripDashes(loc[p].bcode), user.backup_codes)
       IN  /\ loc' = [loc EXCEPT ![p].user = user, ![p].index = index]
           /\ IF user = NoUser THEN Return(p, Failure("NoSuchUserFound"))
              ELSE IF v # "match" THEN Return(p, BadRequest("Invalid email or password"))
              ELSE IF ~user.two_factor_enabled
              THEN Return(p, BadRequest("2FA is not enabled for this user"))
              ELSE IF ~user.backup_codes_some \/ Len(user.backup_codes) = 0
              THEN Return(p, BadRequest("No backup codes available"))
              ELSE IF index = 0 THEN Return(p, BadRequest("Invalid backup code"))
              ELSE Goto(p, "bk_update")
    /\ UNCHANGED <<todoVars, users, tokenState, tokenExpires, userCache, env, nextToken, redeemCount, codes, enrolled>>

\* updated_codes.remove(index); update_user(&updated_user)?: an Err of the
\* UPDATE ends the request with DatabaseError.
BkUpdate(p) ==
    /\ pc[p] = "bk_update"
    /\ LET updated == [loc[p].user EXCEPT
                          !.backup_codes = RemoveAt(loc[p].user.backup_codes, loc[p].index)]
       IN  \E dbOk \in BOOLEAN :
           IF dbOk
           THEN /\ users' = UpdateUser(users, updated)
                /\ loc' = [loc EXCEPT ![p].wrote = "ok"]
                /\ Goto(p, "bk_token")
           ELSE /\ loc' = [loc EXCEPT ![p].wrote = "failed"]
                /\ Return(p, Failure("DatabaseError"))
                /\ UNCHANGED users
    /\ UNCHANGED <<todoVars, tokenState, tokenExpires, userCache, env, nextToken, redeemCount, codes, enrolled>>

BkToken(p) ==
    /\ pc[p] = "bk_token"
    /\ \E redisOk \in BOOLEAN :
        /\ StorePair(loc[p].user.uuid, redisOk)
        /\ loc' = [loc EXCEPT
                      ![p].pair = TokenPairResult(redisOk, nextToken, loc[p].user.uuid),
                      ![p].redisOk = @ /\ redisOk,
                      ![p].storeOk = IF redisOk THEN "ok" ELSE "failed",
                      ![p].regenAtReturn = regenDone]
        /\ Return(p, TokenPairResult(redisOk, nextToken, loc[p].user.uuid))
    /\ UNCHANGED <<todoVars, users, userCache, env, redeemCount, codes, enrolled>>

\* ------------------------------------------------------------- cache (RedisClient as CacheService)
MaxTodos == 2
TodoIds == 1 .. MaxTodos
TodoUsers == {1, 2}
Titles == {"t1", "t2"}

\* todo.rs CACHE_TTL and user.rs USER_CACHE_TTL, in seconds.
CACHE_TTL == 300
USER_CACHE_TTL == 3600

\* TodoQueryParams as the client sends them; Display renders the cache-key part.
QueryInputs == {[is_completed |-> "none"]}
QueryToString(q) ==
    <<"page=1", "page_size=10", "search=",
      IF q.is_completed = "true" THEN "is_completed=true" ELSE "is_completed=false",
      "sort_by=created_at", "sort_order=desc">>

\* Cache keys and patterns as the segments between the colons.
ListKey(user_id, q) == <<"todos", "user", user_id, "list", QueryToString(q)>>
ItemKey(user_id, uuid) == <<"todos", "user", user_id, "item", uuid>>
UserPattern(user_id) == <<"todos", "user", user_id, "*">>

CacheKeys ==
    {ListKey(u, q) : u \in TodoUsers, q \in QueryInputs}
    \cup {ItemKey(u, t) : u \in TodoUsers, t \in TodoIds}
CachePatterns == {UserPattern(u) : u \in TodoUsers}

\* SCAN ... MATCH pattern: the literal segments, then "*" for any remainder.
GlobMatch(pattern, key) ==
    /\ Len(key) >= Len(pattern)
    /\ \A i \in 1 .. Len(pattern) :
          IF i = Len(pattern) /\ pattern[i] = "*" THEN TRUE ELSE pattern[i] = key[i]

\* serde_json::to_string / from_str::<T>: the text parses only as the type
\* whose shape it has.
NoData == [type |-> "none", json |-> <<>>]
Serialize(type, value) == [type |-> type, json |-> value]
Deserialize(type, data) ==
    IF data.type = type THEN [ok |-> TRUE, value |-> data.json]
    ELSE [ok |-> FALSE, value |-> <<>>]

\* A key Redis does not hold.  asOf is the Todo Store version the cached
\* value was computed from; a request's asOf is the version it last saw, at
\* its start or at its read of the store.
NoEntry == [data |-> NoData, expires |-> 0, asOf |-> 0]

\* A key set with EX ttl is gone once ttl seconds have passed.
Live(c, key, time) == c[key] # NoEntry /\ time < c[key].expires

GetCachedEmptyOnError(c, key, type, time, redisOk) ==
    IF ~redisOk THEN [kind |-> "some", value |-> <<>>]
    ELSE IF ~Live(c, key, time) THEN [kind |-> "none", value |-> <<>>]
    ELSE IF ~Deserialize(type, c[key].data).ok THEN [kind |-> "none", value |-> <<>>]
    ELSE [kind |-> "some", value |-> Deserialize(type, c[key].data).value]

\* get_cached::<T>(key): Err when the connection or the GET fails, Ok(None)
\* on a miss and on text that does not parse as T, Ok(Some(parsed)) otherwise.
GetCached(c, key, type, time, redisOk) ==
    IF ~redisOk THEN [kind |-> "err", value |-> <<>>]
    ELSE IF ~Live(c, key, time) THEN [kind |-> "none", value |-> <<>>]
    ELSE IF ~Deserialize(type, c[key].data).ok THEN [kind |-> "none", value |-> <<>>]
    ELSE [kind |-> "some", value |-> Deserialize(type, c[key].data).value]

SetCachedTwiceAsLong(c, key, type, value, ttl, time, asOf) ==
    [c EXCEPT ![key] = [data |-> Serialize(type, value), expires |-> time + 2 * ttl,
                        asOf |-> asOf]]

\* set_cached(key, value, ttl): SET key serialized EX ttl.
SetCached(c, key, type, value, ttl, time, asOf) ==
    [c EXCEPT ![key] = [data |-> Serialize(type, value), expires |-> time + ttl,
                        asOf |-> asOf]]

\* A DEL that takes every key with it.
DelEveryKey(c, keys) == [k \in DOMAIN c |-> NoEntry]

\* DEL keys.
DelKeys(c, keys) == [k \in DOMAIN c |-> IF k \in keys THEN NoEntry ELSE c[k]]

\* The keys one SCAN call reports among the slots `visit` it walks over.
ScanBatch(c, pattern, visit, time) ==
    {k \in visit : Live(c, k, time) /\ GlobMatch(pattern, k)}

\* ------------------------------------------------------------- todo store
NoTodo == [uuid |-> NoId, title |-> "", is_completed |-> FALSE, owner_id |-> NoId]

\* What a cache key was last given, for the round-trip law of the cache.
NoShadow == [state |-> "none", type |-> "none", value |-> <<>>, expires |-> 0]

InitTodoVars ==
    /\ todos = [t \in TodoIds |-> NoTodo]
    /\ cache = [k \in CacheKeys |-> NoEntry]
    /\ nextTodo = 1
    /\ dbVersion = 0
    /\ shadow = [k \in CacheKeys |-> NoShadow]

\* The rows of one owner, newest first (ORDER BY created_at DESC).
RECURSIVE OwnedFrom(_, _, _)
OwnedFrom(table, user_id, t) ==
    IF t = 0 THEN <<>>
    ELSE (IF table[t] # NoTodo /\ table[t].owner_id = user_id
          THEN <<table[t]>> ELSE <<>>) \o OwnedFrom(table, user_id, t - 1)

\* Database::get_all_todos with the default page and no filter: the COUNT(*)
\* and the page of rows.
GetAllTodos(table, user_id) ==
    [todos |-> OwnedFrom(table, user_id, MaxTodos),
     total |-> Len(OwnedFrom(table, user_id, MaxTodos))]

\* Database::get_one_todo: SELECT ... WHERE uuid = $1 (no owner in the WHERE).
GetOneTodo(table, uuid) == table[uuid]

\* Database::add_todo: INSERT ... RETURNING *.
AddTodo(table, uuid, user_id, title) ==
    [table EXCEPT ![uuid] = [uuid |-> uuid, title |-> title, is_completed |-> FALSE,
                             owner_id |-> user_id]]

\* The UPDATE of Database::update_todo: title and is_completed as resolved
\* against the row read before it.
UpdateTodoRow(table, uuid, title, is_completed) ==
    [table EXCEPT ![uuid].title = title, ![uuid].is_completed = is_completed]

\* The DELETE of Database::delete_todo.
DeleteTodoRow(table, uuid) == [table EXCEPT ![uuid] = NoTodo]

\* ------------------------------------------------------------- bearer validator
ValidatorAnyType(token) ==
    IF ~Decodes(token, now) THEN [ok |-> FALSE, user_id |-> NoId, msg |-> "Invalid token"]
    ELSE [ok |-> TRUE, user_id |-> token.sub, msg |-> ""]

\* middleware::auth::validator: the token must decode and be an access token;
\* its subject becomes the request's user id.
Validator(token) ==
    IF ~Decodes(token, now) THEN [ok |-> FALSE, user_id |-> NoId, msg |-> "Invalid token"]
    ELSE IF token.token_type # "access"
    THEN [ok |-> FALSE, user_id |-> NoId, msg |-> "Invalid token type"]
    ELSE [ok |-> TRUE, user_id |-> token.sub, msg |-> ""]

\* The bearer tokens a client may present: any token it was handed, or text
\* that does not decode.
BearerInputs == issued \cup {NoToken}

\* ------------------------------------------------------------- todo handlers
TodoResp(status, msg, data) ==
    [status |-> status, msg |-> msg, access |-> NoToken, refresh |-> NoToken,
     data |-> data]

TodoLoc ==
    [kind |-> "none", bearer |-> NoToken, user |-> NoId, uuid |-> NoId, title |-> "",
     query |-> [is_completed |-> "none"], cacheRead |-> "none", setOk |-> "none",
     fetched |-> <<>>, asOf |-> 0, version |-> 0, existing |-> NoTodo,
     result |-> <<>>, pattern |-> <<>>, remaining |-> {}, batch |-> {},
     invOk |-> "none", committed |-> FALSE]

\* The state of the user router, which no todo handler touches.
userVars == <<users, tokenState, tokenExpires, userCache, nextToken, redeemCount, codes, enrolled>>

\* A request that the bearer validator turns away before any handler runs.
Reject(p, l, r) ==
    /\ FirstIdle(p)
    /\ budget > 0
    /\ budget' = budget - 1
    /\ pc' = [pc EXCEPT ![p] = "done"]
    /\ loc' = [loc EXCEPT ![p] = l]
    /\ resp' = [resp EXCEPT ![p] = r]
    /\ UNCHANGED <<todoVars, userVars, now, probe, issued, connection_manager>>

\* HttpAuthentication::bearer(validator) in front of a todo handler.
TodoAccept(p, token, label, l) ==
    LET v == Validator(token) IN
    IF v.ok THEN Accept(p, label, [l EXCEPT !.bearer = token, !.user = v.user_id,
                                            !.asOf = dbVersion])
    ELSE Reject(p, [l EXCEPT !.bearer = token], TodoResp("Unauthorized", v.msg, <<>>))

\* How the cache answered a read: the backend failed, or it answered with
\* nothing usable, or with a value.
CacheReadOf(redisOk, r) ==
    IF ~redisOk THEN "failed" ELSE IF r.kind = "some" THEN "hit" ELSE "miss"

\* ------------------------------------------------------------- get_todos
StartGetTodos(p) ==
    \E token \in BearerInputs, q \in QueryInputs :
        TodoAccept(p, token, "gt_cache", [TodoLoc EXCEPT !.kind = "get_todos", !.query = q])

\* get_cached::<TodoResponseList>: only Ok(Some(_)) answers the request.
GtCache(p) ==
    /\ pc[p] = "gt_cache"
    /\ \E redisOk \in BOOLEAN :
        LET r == GetCached(cache, ListKey(loc[p].user, loc[p].query),
                           "TodoResponseList", now, redisOk)
        IN  /\ loc' = [loc EXCEPT ![p].cacheRead = CacheReadOf(redisOk, r)]
            /\ IF r.kind = "some"
               THEN Return(p, TodoResp("ok", "Todos retrieved successfully", r.value))
               ELSE Goto(p, "gt_db")
    /\ UNCHANGED <<todoVars, userVars, env>>

\* Database::get_all_todos.
GtDb(p) ==
    /\ pc[p] = "gt_db"
    /\ loc' = [loc EXCEPT ![p].fetched = GetAllTodos(todos, loc[p].user),
                          ![p].asOf = dbVersion]
    /\ Goto(p, "gt_set")
    /\ UNCHANGED <<todoVars, userVars, env>>

GtSetPropagates(p) ==
    /\ pc[p] = "gt_set"
    /\ \E redisOk \in BOOLEAN :
        /\ cache' = IF redisOk
                    THEN SetCached(cache, ListKey(loc[p].user, loc[p].query),
                                   "TodoResponseList", loc[p].fetched, CACHE_TTL, now,
                                   loc[p].asOf)
                    ELSE cache
        /\ loc' = [loc EXCEPT ![p].setOk = IF redisOk THEN "ok" ELSE "failed"]
        /\ IF redisOk
           THEN Return(p, TodoResp("ok", "Todos retrieved successfully", loc[p].fetched))
           ELSE Return(p, TodoResp("InternalServerError", "Cache error", <<>>))
    /\ UNCHANGED <<todos, nextTodo, dbVersion, shadow, userVars, env>>

\* set_cached(cache_key, &todos, CACHE_TTL), its result only logged.
GtSet(p) ==
    /\ pc[p] = "gt_set"
    /\ \E redisOk \in BOOLEAN :
        /\ cache' = IF redisOk
                    THEN SetCached(cache, ListKey(loc[p].user, loc[p].query),
                                   "TodoResponseList", loc[p].fetched, CACHE_TTL, now,
                                   loc[p].asOf)
                    ELSE cache
        /\ loc' = [loc EXCEPT ![p].setOk = IF redisOk THEN "ok" ELSE "failed"]
    /\ Return(p, TodoResp("ok", "Todos retrieved successfully", loc[p].fetched))
    /\ UNCHANGED <<todos, nextTodo, dbVersion, shadow, userVars, env>>

\* ------------------------------------------------------------- get_todo
StartGetTodo(p) ==
    \E token \in BearerInputs, t \in TodoIds :
        TodoAccept(p, token, "go_cache", [TodoLoc EXCEPT !.kind = "get_todo", !.uuid = t])

GoCache(p) ==
    /\ pc[p] = "go_cache"
    /\ \E redisOk \in BOOLEAN :
        LET r == GetCached(cache, ItemKey(loc[p].user, loc[p].uuid),
                           "TodoResponse", now, redisOk)
        IN  /\ loc' = [loc EXCEPT ![p].cacheRead = CacheReadOf(redisOk, r)]
            /\ IF r.kind = "some"
               THEN Return(p, TodoResp("ok", "Todo retrieved successfully", r.value))
               ELSE Goto(p, "go_db")
    /\ UNCHANGED <<todoVars, userVars, env>>

\* Database::get_one_todo(..)?: RowNotFound ends the request with 404.
GoDb(p) ==
    /\ pc[p] = "go_db"
    /\ LET todo == GetOneTodo(todos, loc[p].uuid) IN
       /\ loc' = [loc EXCEPT ![p].fetched = todo, ![p].asOf = dbVersion]
       /\ IF todo = NoTodo
          THEN Return(p, TodoResp("NotFound", "Todo not found", <<>>))
          ELSE Goto(p, "go_set")
    /\ UNCHANGED <<todoVars, userVars, env>>

GoSet(p) ==
    /\ pc[p] = "go_set"
    /\ \E redisOk \in BOOLEAN :
        /\ cache' = IF redisOk
                    THEN SetCached(cache, ItemKey(loc[p].user, loc[p].uuid),
                                   "TodoResponse", loc[p].fetched, CACHE_TTL, now,
                                   loc[p].asOf)
                    ELSE cache
        /\ loc' = [loc EXCEPT ![p].setOk = IF redisOk THEN "ok" ELSE "failed"]
    /\ Return(p, TodoResp("ok", "Todo retrieved successfully", loc[p].fetched))
    /\ UNCHANGED <<todos, nextTodo, dbVersion, shadow, userVars, env>>

\* ------------------------------------------------------------- cache invalidation after a write
\* The locals of a handler whose Todo Store write has committed, about to
\* call delete_cached_by_pattern("todos:user:<user_id>:*").
Committed(l, result, version) ==
    [l EXCEPT !.result = result, !.version = version, !.committed = TRUE,
              !.pattern = UserPattern(l.user),
              !.remaining = {k \in CacheKeys : GlobMatch(UserPattern(l.user), k)}]

WriteMessage(kind) ==
    IF kind = "create_todo" THEN "Todo created successfully"
    ELSE IF kind = "update_todo" THEN "Todo updated successfully"
    ELSE "Todo deleted successfully"

WriteDoneUnlessFailed(p, invOk) ==
    /\ loc' = [loc EXCEPT ![p].invOk = invOk, ![p].batch = {}]
    /\ IF invOk = "failed"
       THEN Return(p, TodoResp("InternalServerError", "Cache error", <<>>))
       ELSE Return(p, TodoResp("ok", WriteMessage(loc[p].kind), loc[p].result))

\* The handler's answer after delete_cached_by_pattern, whatever it returned.
WriteDone(p, invOk) ==
    /\ loc' = [loc EXCEPT ![p].invOk = invOk, ![p].batch = {}]
    /\ Return(p, TodoResp("ok", WriteMessage(loc[p].kind), loc[p].result))

\* One SCAN cursor MATCH pattern COUNT 100: it walks some of the slots not
\* yet visited and reports the matching keys there; cursor 0 ends the loop.
InvScan(p) ==
    /\ pc[p] = "inv_scan"
    /\ \E redisOk \in BOOLEAN :
        IF ~redisOk THEN WriteDone(p, "failed")
        ELSE \E visit \in SUBSET loc[p].remaining :
             /\ visit # {} \/ loc[p].remaining = {}
             /\ LET keys == ScanBatch(cache, loc[p].pattern, visit, now)
                    rest == loc[p].remaining \ visit
                IN  IF keys # {}
                    THEN /\ loc' = [loc EXCEPT ![p].batch = keys, ![p].remaining = rest]
                         /\ Goto(p, "inv_del")
                    ELSE IF rest = {}
                    THEN WriteDone(p, "ok")
                    ELSE /\ loc' = [loc EXCEPT ![p].remaining = rest]
                         /\ Goto(p, "inv_scan")
    /\ UNCHANGED <<todoVars, userVars, env>>

\* DEL keys, then the next SCAN unless the cursor came back 0.
InvDel(p) ==
    /\ pc[p] = "inv_del"
    /\ \E redisOk \in BOOLEAN :
        IF ~redisOk THEN WriteDone(p, "failed") /\ UNCHANGED cache
        ELSE /\ cache' = DelKeys(cache, loc[p].batch)
             /\ IF loc[p].remaining = {}
                THEN WriteDone(p, "ok")
                ELSE /\ loc' = [loc EXCEPT ![p].batch = {}]
                     /\ Goto(p, "inv_scan")
    /\ UNCHANGED <<todos, nextTodo, dbVersion, shadow, userVars, env>>

\* ------------------------------------------------------------- create_todo
StartCreateTodo(p) ==
    /\ nextTodo + Cardinality({q \in Procs : pc[q] = "ct_db"}) <= MaxTodos
    /\ \E token \in BearerInputs, title \in Titles :
        TodoAccept(p, token, "ct_db",
                   [TodoLoc EXCEPT !.kind = "create_todo", !.title = title])

\* Database::add_todo.
CtDb(p) ==
    /\ pc[p] = "ct_db"
    /\ todos' = AddTodo(todos, nextTodo, loc[p].user, loc[p].title)
    /\ nextTodo' = nextTodo + 1
    /\ dbVersion' = dbVersion + 1
    /\ loc' = [loc EXCEPT ![p] = Committed([loc[p] EXCEPT !.uuid = nextTodo],
                                            todos'[nextTodo], dbVersion + 1)]
    /\ Goto(p, "inv_scan")
    /\ UNCHANGED <<cache, shadow, userVars, env>>

\* ------------------------------------------------------------- update_todo
StartUpdateTodo(p) ==
    \E token \in BearerInputs, t \in TodoIds, title \in Titles :
        TodoAccept(p, token, "ut_get",
                   [TodoLoc EXCEPT !.kind = "update_todo", !.uuid = t, !.title = title])

\* Database::update_todo, its get_one_todo(..)?.
UtGet(p) ==
    /\ pc[p] = "ut_get"
    /\ LET existing == GetOneTodo(todos, loc[p].uuid) IN
       /\ loc' = [loc EXCEPT ![p].existing = existing]
       /\ IF existing = NoTodo
          THEN Return(p, TodoResp("NotFound", "Todo not found", <<>>))
          ELSE Goto(p, "ut_write")
    /\ UNCHANGED <<todoVars, userVars, env>>

\* Database::update_todo, its UPDATE ... RETURNING *: no row is an error.
UtWrite(p) ==
    /\ pc[p] = "ut_write"
    /\ IF todos[loc[p].uuid] = NoTodo
       THEN /\ Return(p, TodoResp("InternalServerError", "Failed to update todo", <<>>))
            /\ UNCHANGED <<todos, dbVersion, loc>>
       ELSE /\ todos' = UpdateTodoRow(todos, loc[p].uuid, loc[p].title,
                                      loc[p].existing.is_completed)
            /\ dbVersion' = dbVersion + 1
            /\ loc' = [loc EXCEPT ![p] = Committed(loc[p], todos'[loc[p].uuid],
                                                    dbVersion + 1)]
            /\ Goto(p, "inv_scan")
    /\ UNCHANGED <<cache, nextTodo, shadow, userVars, env>>

\* ------------------------------------------------------------- delete_todo
StartDeleteTodo(p) ==
    \E token \in BearerInputs, t \in TodoIds :
        TodoAccept(p, token, "dt_check",
                   [TodoLoc EXCEPT !.kind = "delete_todo", !.uuid = t])

\* Database::delete_todo, its SELECT uuid ... fetch_optional.
DtCheck(p) ==
    /\ pc[p] = "dt_check"
    /\ IF GetOneTodo(todos, loc[p].uuid) = NoTodo
       THEN Return(p, TodoResp("NotFound", "Todo not found", <<>>))
       ELSE Goto(p, "dt_delete")
    /\ UNCHANGED <<loc, todoVars, userVars, env>>

\* Database::delete_todo, its DELETE.
DtDelete(p) ==
    /\ pc[p] = "dt_delete"
    /\ todos' = DeleteTodoRow(todos, loc[p].uuid)
    /\ dbVersion' = dbVersion + 1
    /\ loc' = [loc EXCEPT ![p] = Committed(loc[p], [todo_id |-> loc[p].uuid],
                                            dbVersion + 1)]
    /\ Goto(p, "inv_scan")
    /\ UNCHANGED <<cache, nextTodo, shadow, userVars, env>>

\* ------------------------------------------------------------- specification
T0 == 3000

\* The state after construction: empty stores, idle workers, b requests to come.
InitWithConnection(b, c) ==
    /\ users = [u \in UserIds |-> NoUser]
    /\ tokenState = [t \in TokenIds |-> NoId]
    /\ tokenExpires = [t \in TokenIds |->
                          IF tokenState[t] = NoId THEN 0 ELSE T0 + REFRESH_TTL]
    /\ userCache = [e \in Emails |-> NoUser]
    /\ now = T0
    /\ pc = [p \in Procs |-> "idle"]
    /\ loc = [p \in Procs |-> NoLoc]
    /\ resp = [p \in Procs |-> NoResp]
    /\ budget = b
    /\ nextToken = 1
    /\ issued = {}
    /\ connection_manager = c
    /\ redeemCount = [t \in TokenIds |-> 0]
    /\ nextGen = 1
    /\ shown = {}
    /\ regenDone = 0
    /\ enrolled = [u \in UserIds |-> "none"]
    /\ probe = NoProbe
    /\ InitTodoVars

\* check_connection at startup reached the cache store.
InitWith(b) == InitWithConnection(b, Connected)

Register(p) ==
    \/ StartRegister(p) \/ RegCheck(p) \/ RegCreate(p) \/ RegInsert(p)
    \/ RegToken(p) \/ RegCache(p)

Login(p) ==
    StartLogin(p) \/ LoginCache(p) \/ LoginDb(p) \/ LoginSetCache(p) \/ LoginToken(p)

Refresh(p) ==
    StartRefresh(p) \/ RefGet(p) \/ RefDel(p) \/ RefUser(p) \/ RefToken(p)

Enable2fa(p) == StartEnable2fa(p) \/ EnGet(p) \/ EnWrite(p)

Disable2fa(p) == StartDisable2fa(p) \/ DisGet(p) \/ DisWrite(p)

Verify2fa(p) == StartVerify2fa(p) \/ VerGet(p) \/ VerWrite(p)

GenCodes(p) == StartGenCodes(p) \/ GbcGet(p) \/ GbcClear(p) \/ GbcWrite(p)

BackupLogin(p) == StartBackupLogin(p) \/ BkGet(p) \/ BkUpdate(p) \/ BkToken(p)

\* Sessions from an empty system: registration, login, refresh.
InitSession == InitWith(MaxSessionRequests)

NextSession == \E p \in Procs : Register(p) \/ Login(p) \/ Refresh(p)

SpecSession == InitSession /\ [][NextSession]_vars

\* The same with one request at a time: a worker accepts a request only when
\* no other request is in flight.
NextSessionSeq ==
    \E p \in Procs :
        /\ \A q \in Procs \ {p} : Idle(q)
        /\ (Register(p) \/ Login(p) \/ Refresh(p))

SpecSessionSeq == InitSession /\ [][NextSessionSeq]_vars

\* A registered account: the state a first register request leaves (row 1
\* stored, its token pair handed out and recorded, the User::new value
\* cached), with the workers idle again and b requests to come.
InitRegistered(b) ==
    /\ users = [u \in UserIds |->
                   IF u = 1 THEN NewRow(1, "a@x.io", Hash("pw1")) ELSE NoUser]
    /\ tokenState = [t \in TokenIds |-> IF t = 1 THEN 1 ELSE NoId]
    /\ tokenExpires = [t \in TokenIds |->
                          IF tokenState[t] = NoId THEN 0 ELSE T0 + REFRESH_TTL]
    /\ userCache = [e \in Emails |->
                       IF e = "a@x.io" THEN UserNew(1, "a@x.io") ELSE NoUser]
    /\ now = T0
    /\ pc = [p \in Procs |-> "idle"]
    /\ loc = [p \in Procs |-> NoLoc]
    /\ resp = [p \in Procs |-> NoResp]
    /\ budget = b
    /\ nextToken = 2
    /\ issued = {AccessTokenOf(1), RefreshTokenOf(1, 1)}
    /\ connection_manager = Connected
    /\ redeemCount = [t \in TokenIds |-> 0]
    /\ nextGen = 1
    /\ shown = {}
    /\ regenDone = 0
    /\ enrolled = [u \in UserIds |-> "none"]
    /\ probe = NoProbe
    /\ InitTodoVars

\* Login of a registered account and the switch that turns the second
\* factor on.  No account of this specification ever holds backup codes
\* (generate_backup_codes is not served), so login_with_backup_code always
\* returns from its first step, BkGet, and its later steps are left out.
Init == InitRegistered(MaxLoginRequests)

Next ==
    \E p \in Procs :
        \/ Login(p) \/ Enable2fa(p)
        \/ StartBackupLogin(p) \/ BkGet(p)

Spec == Init /\ [][Next]_vars

\* The second-factor lifecycle of a registered account.
InitTwoFactor == InitRegistered(MaxTwoFactorRequests)

NextTwoFactor ==
    \E p \in Procs :
        Enable2fa(p) \/ Verify2fa(p) \/ Disable2fa(p) \/ GenCodes(p) \/ BackupLogin(p)

SpecTwoFactor == InitTwoFactor /\ [][NextTwoFactor]_vars

\* verify_totp as a function of (secret, code, time): the clock advances in
\* ticks, and a client presents the code of the step `offset` periods away
\* from the clock's, as it is or with one digit altered.
MaxStepOffset == 3
MaxTicks == 6
TickSeconds == 10

DigitAt(code, pos) == (code \div (10 ^ pos)) % 10

\* `code` with the digit at position pos (0 = last) replaced by d.
AlterDigit(code, pos, d) == code - DigitAt(code, pos) * (10 ^ pos) + d * (10 ^ pos)

Tick ==
    /\ now < T0 + MaxTicks * TickSeconds
    /\ now' = now + TickSeconds
    /\ probe' = NoProbe
    /\ UNCHANGED <<todoVars, users, tokenState, tokenExpires, userCache, pc, loc, resp, budget, nextToken,
                   issued, connection_manager, redeemCount, codes, enrolled>>

ApplyVerifyTotp ==
    /\ probe = NoProbe
    /\ \E s \in Secrets, k \in (-MaxStepOffset) .. MaxStepOffset :
         LET code == TotpGenerate(s, now + k * TOTP_PERIOD) IN
         \E pos \in -1 .. 5, d \in 0 .. 9 :
             /\ pos = -1 => d = 0
             /\ pos >= 0 => d # DigitAt(code, pos)
             /\ LET c == IF pos = -1 THEN code ELSE AlterDigit(code, pos, d) IN
                probe' = [fn |-> "verify_totp", secret |-> s, code |-> c, offset |-> k,
                          altered |-> (pos >= 0), result |-> VerifyTotp(s, c, now)]
             /\ UNCHANGED <<todoVars, users, tokenState, tokenExpires, userCache, now, pc, loc, resp, budget,
                            nextToken, issued, connection_manager, redeemCount, codes, enrolled>>

InitTotp == InitWith(0)

NextTotp == Tick \/ ApplyVerifyTotp

SpecTotp == InitTotp /\ [][NextTotp]_vars

\* ------------------------------------------------------------- todo specification
\* Requests the workers accept in one behaviour of the todo router.
MaxTodoRequests == 2

GetTodos(p) == StartGetTodos(p) \/ GtCache(p) \/ GtDb(p) \/ GtSet(p)

GetTodo(p) == StartGetTodo(p) \/ GoCache(p) \/ GoDb(p) \/ GoSet(p)

Invalidate(p) == InvScan(p) \/ InvDel(p)

CreateTodo(p) == StartCreateTodo(p) \/ CtDb(p)

UpdateTodo(p) == StartUpdateTodo(p) \/ UtGet(p) \/ UtWrite(p)

DeleteTodo(p) == StartDeleteTodo(p) \/ DtCheck(p) \/ DtDelete(p)

\* Two registered users holding the token pairs register gave them; the
\* first owns one todo.
InitSignedInWith(b, c) ==
    /\ users = [u \in UserIds |->
                   IF u = 1 THEN NewRow(1, "a@x.io", Hash("pw1"))
                   ELSE IF u = 2 THEN NewRow(2, "b@x.io", Hash("pw2")) ELSE NoUser]
    /\ tokenState = [t \in TokenIds |-> IF t \in {1, 2} THEN t ELSE NoId]
    /\ tokenExpires = [t \in TokenIds |->
                          IF tokenState[t] = NoId THEN 0 ELSE T0 + REFRESH_TTL]
    /\ userCache = [e \in Emails |->
                       IF e = "a@x.io" THEN UserNew(1, "a@x.io") ELSE UserNew(2, "b@x.io")]
    /\ now = T0
    /\ pc = [p \in Procs |-> "idle"]
    /\ loc = [p \in Procs |-> NoLoc]
    /\ resp = [p \in Procs |-> NoResp]
    /\ budget = b
    /\ nextToken = 3
    /\ issued = {AccessTokenOf(1), RefreshTokenOf(1, 1),
                 AccessTokenOf(2), RefreshTokenOf(2, 2)}
    /\ connection_manager = Connected
    /\ redeemCount = [t \in TokenIds |-> 0]
    /\ nextGen = 1
    /\ shown = {}
    /\ regenDone = 0
    /\ enrolled = [u \in UserIds |-> "none"]
    /\ probe = NoProbe
    /\ todos = AddTodo([t \in TodoIds |-> NoTodo], 1, 1, "t1")
    /\ cache = c
    /\ nextTodo = 2
    /\ dbVersion = 1
    /\ shadow = [k \in CacheKeys |-> NoShadow]

InitSignedIn(b) == InitSignedInWith(b, [k \in CacheKeys |-> NoEntry])

InitTodo == InitSignedIn(MaxTodoRequests)

NextTodo ==
    \E p \in Procs :
        \/ GetTodos(p) \/ GetTodo(p)
        \/ CreateTodo(p) \/ UpdateTodo(p) \/ DeleteTodo(p)
        \/ Invalidate(p)

SpecTodo == InitTodo /\ [][NextTodo]_vars

\* ------------------------------------------------------------- todo writes specification
\* The mutating handlers alone, for one registered user whose earlier
\* get_todos and get_todo requests have filled the cache.
MaxWriteRequests == 1

FilledCache ==
    SetCached(SetCached([k \in CacheKeys |-> NoEntry],
                        ListKey(1, [is_completed |-> "none"]), "TodoResponseList",
                        GetAllTodos(AddTodo([t \in TodoIds |-> NoTodo], 1, 1, "t1"), 1),
                        CACHE_TTL, T0, 1),
              ItemKey(1, 1), "TodoResponse",
              AddTodo([t \in TodoIds |-> NoTodo], 1, 1, "t1")[1], CACHE_TTL, T0, 1)

InitTodoWrites ==
    /\ users = [u \in UserIds |->
                   IF u = 1 THEN NewRow(1, "a@x.io", Hash("pw1")) ELSE NoUser]
    /\ tokenState = [t \in TokenIds |-> IF t = 1 THEN 1 ELSE NoId]
    /\ tokenExpires = [t \in TokenIds |->
                          IF tokenState[t] = NoId THEN 0 ELSE T0 + REFRESH_TTL]
    /\ userCache = [e \in Emails |->
                       IF e = "a@x.io" THEN UserNew(1, "a@x.io") ELSE NoUser]
    /\ now = T0
    /\ pc = [p \in Procs |-> "idle"]
    /\ loc = [p \in Procs |-> NoLoc]
    /\ resp = [p \in Procs |-> NoResp]
    /\ budget = MaxWriteRequests
    /\ nextToken = 2
    /\ issued = {AccessTokenOf(1), RefreshTokenOf(1, 1)}
    /\ connection_manager = Connected
    /\ redeemCount = [t \in TokenIds |-> 0]
    /\ nextGen = 1
    /\ shown = {}
    /\ regenDone = 0
    /\ enrolled = [u \in UserIds |-> "none"]
    /\ probe = NoProbe
    /\ todos = AddTodo([t \in TodoIds |-> NoTodo], 1, 1, "t1")
    /\ cache = FilledCache
    /\ nextTodo = 2
    /\ dbVersion = 1
    /\ shadow = [k \in CacheKeys |-> NoShadow]

NextTodoWrites ==
    \E p \in Procs : CreateTodo(p) \/ UpdateTodo(p) \/ DeleteTodo(p) \/ Invalidate(p)

SpecTodoWrites == InitTodoWrites /\ [][NextTodoWrites]_vars

\* ------------------------------------------------------------- invalidation sweep specification
\* delete_todo and the sweep of the cache after it, for two users whose
\* earlier get_todos and get_todo requests have filled the cache.
MaxSweepRequests == 2

SweepCache ==
    SetCached(SetCached(FilledCache,
                        ListKey(2, [is_completed |-> "none"]), "TodoResponseList",
                        GetAllTodos(AddTodo([t \in TodoIds |-> NoTodo], 1, 1, "t1"), 2),
                        CACHE_TTL, T0, 1),
              ItemKey(2, 1), "TodoResponse",
              AddTodo([t \in TodoIds |-> NoTodo], 1, 1, "t1")[1], CACHE_TTL, T0, 1)

InitSweep == InitSignedInWith(MaxSweepRequests, SweepCache)

NextSweep == \E p \in Procs : DeleteTodo(p) \/ Invalidate(p)

SpecSweep == InitSweep /\ [][NextSweep]_vars

\* ------------------------------------------------------------- delete_cached_by_pattern
\* The method itself, with its cursor, its counter and its return value, called
\* by concurrent tasks on a filled cache.
MaxPatternCalls == 2

\* The locals of delete_cached_by_pattern; dels lists the replies of its DELs.
PatternLoc ==
    [kind |-> "delete_cached_by_pattern", pattern |-> <<>>, cursor |-> 0,
     batch |-> {}, deleted_count |-> 0, dels |-> <<>>, result |-> 0]

\* The slots of the key table in the order SCAN walks them; a cursor is the
\* number of slots walked so far.
RECURSIVE SlotsOf(_)
SlotsOf(keys) ==
    IF keys = {} THEN <<>>
    ELSE LET k == CHOOSE x \in keys : TRUE IN <<k>> \o SlotsOf(keys \ {k})
CacheSlots == SlotsOf(CacheKeys)

\* The cursor of a SCAN reply that walked up to slot `upto`: 0 once the walk
\* has been over every slot.
ScanCursor(upto) == IF upto = Len(CacheSlots) THEN 0 ELSE upto

\* The reply of DEL keys: the number of keys that were there to remove.
DelReply(c, keys, time) == Cardinality({k \in keys : Live(c, k, time)})

\* A counter that keeps the last reply only.
AddCountLast(deleted_count, del_count) == del_count

\* deleted_count += del_count as u64
AddCount(deleted_count, del_count) == deleted_count + del_count

RECURSIVE SumSeq(_)
SumSeq(seq) == IF seq = <<>> THEN 0 ELSE Head(seq) + SumSeq(Tail(seq))

StartDeleteByPattern(p) ==
    \E pattern \in CachePatterns :
        Accept(p, "dp_scan", [PatternLoc EXCEPT !.pattern = pattern])

\* SCAN cursor MATCH pattern COUNT 100, its `?`, and, with no key in the
\* reply, the `if cursor == 0 { break }` and the Ok(deleted_count).
DpScan(p) ==
    /\ pc[p] = "dp_scan"
    /\ \E redisOk \in BOOLEAN :
        IF ~redisOk
        THEN /\ Return(p, Failure("RedisError"))
             /\ UNCHANGED loc
        ELSE \E upto \in (loc[p].cursor + 1) .. Len(CacheSlots) :
             LET visit == {CacheSlots[i] : i \in (loc[p].cursor + 1) .. upto}
                 keys == ScanBatch(cache, loc[p].pattern, visit, now)
                 l == [loc[p] EXCEPT !.cursor = ScanCursor(upto), !.batch = keys]
             IN     IF keys # {}
                    THEN /\ loc' = [loc EXCEPT ![p] = l]
                         /\ Goto(p, "dp_del")
                    ELSE IF l.cursor = 0
                    THEN /\ loc' = [loc EXCEPT ![p] = [l EXCEPT !.result = l.deleted_count]]
                         /\ Return(p, Success)
                    ELSE /\ loc' = [loc EXCEPT ![p] = l]
                         /\ Goto(p, "dp_scan")
    /\ UNCHANGED <<todoVars, userVars, env>>

\* DEL keys, its `?`, the counter, then `if cursor == 0 { break }`.
DpDel(p) ==
    /\ pc[p] = "dp_del"
    /\ \E redisOk \in BOOLEAN :
        IF ~redisOk
        THEN /\ Return(p, Failure("RedisError"))
             /\ UNCHANGED <<loc, cache>>
        ELSE LET del_count == DelReply(cache, loc[p].batch, now)
                 l == [loc[p] EXCEPT
                          !.deleted_count = AddCount(@, del_count),
                          !.dels = Append(@, del_count)]
             IN  /\ cache' = DelKeys(cache, loc[p].batch)
                 /\ IF l.cursor = 0
                    THEN /\ loc' = [loc EXCEPT ![p] = [l EXCEPT !.result = l.deleted_count]]
                         /\ Return(p, Success)
                    ELSE /\ loc' = [loc EXCEPT ![p] = l]
                         /\ Goto(p, "dp_scan")
    /\ UNCHANGED <<todos, nextTodo, dbVersion, shadow, userVars, env>>

DeleteByPattern(p) == StartDeleteByPattern(p) \/ DpScan(p) \/ DpDel(p)

InitPattern == InitSignedInWith(MaxPatternCalls, SweepCache)

NextPattern == \E p \in Procs : DeleteByPattern(p)

SpecPattern == InitPattern /\ [][NextPattern]_vars

\* ------------------------------------------------------------- token type specification
\* Refresh requests that present any token the signing secret validates, next
\* to get_todos requests behind the bearer validator.
MaxRefreshRequests == 3

\* The tokens decode::<Claims> accepts: those handed out, and any refresh
\* token signed with the secret for a token id in use, with or without a
\* user_id claim.
PresentedTokens ==
    issued \cup {GenerateJwtToken(t, "refresh", u) :
                    t \in 1 .. (nextToken - 1),
                    u \in {NoId} \cup {v \in UserIds : users[v] # NoUser}}

StartRefreshPresented(p) ==
    \E t \in PresentedTokens :
        Accept(p, "ref_get",
               [NoLoc EXCEPT !.kind = "refresh", !.token = t,
                             !.priorRedeems = redeemCount[t.sub]])

RefreshPresented(p) ==
    StartRefreshPresented(p) \/ RefGet(p) \/ RefDel(p) \/ RefUser(p) \/ RefToken(p)

InitTokenTypes == InitSignedIn(MaxRefreshRequests)

NextTokenTypes == \E p \in Procs : RefreshPresented(p) \/ GetTodos(p)

SpecTokenTypes == InitTokenTypes /\ [][NextTokenTypes]_vars

\* ------------------------------------------------------------- token issue specification
\* Every handler that ends in generate_token_pair: register, login, refresh and
\* login_with_backup_code.
MaxIssueRequests == 2

\* b@x.io is registered with the second factor on and one set of backup codes
\* shown to it; a@x.io is still free to register.
InitEnrolled(b) ==
    /\ users = [u \in UserIds |->
                   IF u = 1
                   THEN [NewRow(1, "b@x.io", Hash("pw2")) EXCEPT
                            !.two_factor_enabled = TRUE,
                            !.two_factor_secret = 1,
                            !.backup_codes_some = TRUE,
                            !.backup_codes = GenerateBackupCodes(1).hashed]
                   ELSE NoUser]
    /\ tokenState = [t \in TokenIds |-> IF t = 1 THEN 1 ELSE NoId]
    /\ tokenExpires = [t \in TokenIds |->
                          IF tokenState[t] = NoId THEN 0 ELSE T0 + REFRESH_TTL]
    /\ userCache = [e \in Emails |->
                       IF e = "b@x.io" THEN UserNew(1, "b@x.io") ELSE NoUser]
    /\ now = T0
    /\ pc = [p \in Procs |-> "idle"]
    /\ loc = [p \in Procs |-> NoLoc]
    /\ resp = [p \in Procs |-> NoResp]
    /\ budget = b
    /\ nextToken = 2
    /\ issued = {AccessTokenOf(1), RefreshTokenOf(1, 1)}
    /\ connection_manager = Connected
    /\ redeemCount = [t \in TokenIds |-> 0]
    /\ nextGen = 2
    /\ shown = {FormatBackupCode(GenerateBackupCodes(1).plain[i]) :
                   i \in 1 .. BackupCodesCount}
    /\ regenDone = 1
    /\ enrolled = [u \in UserIds |-> "none"]
    /\ probe = NoProbe
    /\ InitTodoVars

InitIssue == InitEnrolled(MaxIssueRequests)

NextIssue ==
    \E p \in Procs : Register(p) \/ Login(p) \/ Refresh(p) \/ BackupLogin(p)

SpecIssue == InitIssue /\ [][NextIssue]_vars

\* ------------------------------------------------------------- todo list ordering
\* The ORDER BY of Database::get_all_todos as a function of the sort_by and
\* sort_order a client sends and of the owner's rows.
MaxSortRows == 3

\* filter.sort_by and filter.sort_order: None, or Some(text).
NoText == "<none>"
SortByInputs ==
    {NoText, "created_at", "updated_at", "title", "is_completed", "completed",
     "uuid; DROP TABLE todos"}
SortOrderInputs == {NoText, "asc", "ASC", "desc", "up"}

\* str::to_lowercase on the sort orders above.
ToLowercase(text) == IF text = "ASC" THEN "asc" ELSE text

\* Rows of one owner.  The columns are laid out so that no two of them order
\* the rows alike; title and is_completed stand as their rank in the
\* column's order.
SortRow(i) ==
    [uuid |-> i, created_at |-> i, updated_at |-> MaxSortRows + 1 - i,
     title |-> (2 * i) % (MaxSortRows + 1), is_completed |-> i % 2]

ResolveSortByNoTitle(sort_by) ==
    LET given == IF sort_by = NoText THEN "created_at" ELSE sort_by IN
    IF given \in {"created_at", "updated_at", "is_completed"} THEN given
    ELSE "created_at"

\* unwrap_or_else(|| "created_at"), then the check against valid_sort_columns.
ResolveSortBy(sort_by) ==
    LET given == IF sort_by = NoText THEN "created_at" ELSE sort_by IN
    IF given \in {"created_at", "updated_at", "title", "is_completed"} THEN given
    ELSE "created_at"

\* unwrap_or_else(|| "desc"), then "ASC" if it lowercases to "asc", else "DESC".
ResolveSortOrder(sort_order) ==
    LET given == IF sort_order = NoText THEN "desc" ELSE sort_order IN
    IF ToLowercase(given) = "asc" THEN "ASC" ELSE "DESC"

\* seq is in the order ORDER BY column direction asks for.
InOrder(seq, column, direction) ==
    \A i, j \in 1 .. Len(seq) :
        i < j => IF direction = "ASC" THEN seq[i][column] <= seq[j][column]
                 ELSE seq[i][column] >= seq[j][column]

\* SELECT ... ORDER BY column direction: the rows in any order the clause
\* allows (rows equal in the column come in either order).
OrderBy(rows, column, direction) ==
    {seq \in [1 .. Cardinality(rows) -> rows] :
        /\ \A i, j \in 1 .. Cardinality(rows) : i # j => seq[i] # seq[j]
        /\ InOrder(seq, column, direction)}

ApplyGetAllTodos ==
    /\ \E sort_by \in SortByInputs, sort_order \in SortOrderInputs,
          ids \in SUBSET (1 .. MaxSortRows) :
          \E result \in OrderBy({SortRow(i) : i \in ids}, ResolveSortBy(sort_by),
                                 ResolveSortOrder(sort_order)) :
             probe' = [fn |-> "get_all_todos", sort_by |-> sort_by,
                       sort_order |-> sort_order, rows |-> ids, result |-> result]
    /\ UNCHANGED <<todoVars, userVars, now, pc, loc, resp, budget, issued, connection_manager>>

InitSort == InitWith(0)

NextSort == ApplyGetAllTodos

SpecSort == InitSort /\ [][NextSort]_vars

\* ------------------------------------------------------------- second factor off and on again
\* An account with the second factor on and a set of backup codes shown to its
\* user: the factor is turned off and on again, and backup codes are presented,
\* one request at a time.
MaxReenableRequests == 3

InitReenable == InitEnrolled(MaxReenableRequests)

NextReenable ==
    \E p \in Procs :
        /\ \A q \in Procs \ {p} : Idle(q)
        /\ (Disable2fa(p) \/ Enable2fa(p) \/ Verify2fa(p) \/ BackupLogin(p))

SpecReenable == InitReenable /\ [][NextReenable]_vars

\* ------------------------------------------------------------- failed sign-in specification
\* login and login_with_backup_code on an account with the second factor on,
\* with every way the two handlers turn a request down.
MaxSignInRequests == 2

\* An email LoginRequest's validator refuses.
InvalidEmail == "not-an-email"

StartLoginInvalid(p) ==
    \E pw \in Passwords :
        Accept(p, "login_validate",
               [NoLoc EXCEPT !.kind = "login", !.email = InvalidEmail, !.password = pw])

\* body.validate() fails: ValidationError, before the first await.
LoginValidate(p) ==
    /\ pc[p] = "login_validate"
    /\ Return(p, Failure("ValidationError"))
    /\ UNCHANGED <<todoVars, userVars, loc, now, probe, budget>>

InitSignIn == InitEnrolled(MaxSignInRequests)

NextSignIn ==
    \E p \in Procs :
        \/ StartLoginInvalid(p) \/ LoginValidate(p)
        \/ Login(p) \/ BackupLogin(p)

SpecSignIn == InitSignIn /\ [][NextSignIn]_vars

\* ------------------------------------------------------------- RedisClient::get_conn
\* Calls of get_conn by concurrent tasks, from a client whose startup
\* check_connection did or did not reach the cache store.
MaxConnCalls == 3

\* A lock that is always granted.
LockFreeAlways(c) == TRUE

\* self.connection_manager.lock().await is granted when no task holds the mutex.
LockFree(c) == c.holder = "none"

\* The methods of RedisClient: each begins with self.get_conn().await?.
ConnCallers ==
    {"store_token_state", "validate_and_invalidate_token", "check_connection",
     "get_cached", "set_cached", "delete_cached_by_pattern"}

StartGetConn(p) ==
    \E m \in ConnCallers :
        Accept(p, "conn_lock", [NoLoc EXCEPT !.kind = "get_conn", !.caller = m])

\* The lock is granted.  With a manager in the Option the call returns a clone
\* of it and drops the guard; with None it goes on to ConnectionManager::new,
\* holding the guard across the await.
ConnLock(p) ==
    /\ pc[p] = "conn_lock"
    /\ LockFree(connection_manager)
    /\ IF connection_manager.slot # NoId
       THEN /\ loc' = [loc EXCEPT ![p].manager = connection_manager.slot]
            /\ pc' = [pc EXCEPT ![p] = "done"]
            /\ resp' = [resp EXCEPT ![p] = Success]
            /\ UNCHANGED connection_manager
       ELSE /\ connection_manager' = [connection_manager EXCEPT !.holder = p]
            /\ pc' = [pc EXCEPT ![p] = "conn_new"]
            /\ UNCHANGED <<loc, resp>>
    /\ UNCHANGED <<todoVars, userVars, now, probe, budget, issued>>

\* ConnectionManager::new(..).await?: Ok stores the new manager in the Option
\* and returns a clone of it; Err leaves the Option as it is.  The guard is
\* dropped either way.
ConnNew(p) ==
    /\ pc[p] = "conn_new"
    /\ \E ok \in BOOLEAN :
        IF ok
        THEN /\ connection_manager' =
                    [holder |-> "none", slot |-> connection_manager.created + 1,
                     created |-> connection_manager.created + 1]
             /\ loc' = [loc EXCEPT ![p].manager = connection_manager.created + 1]
             /\ resp' = [resp EXCEPT ![p] = Success]
        ELSE /\ connection_manager' = [connection_manager EXCEPT !.holder = "none"]
             /\ resp' = [resp EXCEPT ![p] = Failure("RedisError")]
             /\ UNCHANGED loc
    /\ pc' = [pc EXCEPT ![p] = "done"]
    /\ UNCHANGED <<todoVars, userVars, now, probe, budget, issued>>

GetConn(p) == StartGetConn(p) \/ ConnLock(p) \/ ConnNew(p)

InitConn ==
    \E c \in {NoConnection, Connected} : InitWithConnection(MaxConnCalls, c)

NextConn == \E p \in Procs : GetConn(p)

SpecConn == InitConn /\ [][NextConn]_vars

\* ------------------------------------------------------------- todo list cache key
\* The cache key get_todos builds from a TodoQueryParams, beside the result
\* Database::get_all_todos gives for the same parameters.
MaxQueryRows == 2

\* Option<T>: None, or Some(v).
None == <<>>
Some(v) == <<v>>
UnwrapOr(o, d) == IF o = None THEN d ELSE o[1]

\* Query strings a client sends.  Text is a sequence of characters.
QueryParamInputs ==
    [page : {None, Some(1), Some(2)},
     page_size : {None, Some(1)},
     search : {None, Some(<<>>), Some(<<"a">>)},
     is_completed : {None, Some(FALSE), Some(TRUE)},
     sort_by : {None, Some("title")},
     sort_order : {None, Some("asc")}]

\* Rows of one owner: title holds its rank in the column's order, as in
\* SortRow, and title_text its characters.
QueryRow(i) ==
    [uuid |-> i, created_at |-> i, updated_at |-> i, title |-> i,
     title_text |-> IF i % 2 = 1 THEN <<"a">> ELSE <<"b">>,
     description |-> <<"d">>,
     is_completed |-> (i % 2 = 0)]

\* impl Display for TodoQueryParams: the six fields, each with its unwrap_or
\* default, in the order of the format string.
TodoQueryParamsDisplay(q) ==
    <<UnwrapOr(q.page, 1), UnwrapOr(q.page_size, 10), UnwrapOr(q.search, <<>>),
      UnwrapOr(q.is_completed, FALSE), UnwrapOr(q.sort_by, "created_at"),
      UnwrapOr(q.sort_order, "desc")>>

\* text ILIKE '%pattern%'.
Ilike(text, pattern) ==
    \E i \in 1 .. Len(text) + 1 :
        /\ i + Len(pattern) - 1 <= Len(text)
        /\ SubSeq(text, i, i + Len(pattern) - 1) = pattern

\* The WHERE clause of get_all_todos: a condition is added only for a filter
\* that is Some.
WhereTodos(rows, filter) ==
    {r \in rows :
        /\ filter.search # None =>
              \/ Ilike(r.title_text, filter.search[1])
              \/ Ilike(r.description, filter.search[1])
        /\ filter.is_completed # None => r.is_completed = filter.is_completed[1]}

\* Database::get_all_todos: COUNT(*), then ORDER BY ... LIMIT page_size
\* OFFSET (page - 1) * page_size; every answer the query can give.
GetAllTodosPage(rows, q) ==
    LET page == UnwrapOr(q.page, 1)
        page_size == UnwrapOr(q.page_size, 10)
        offset == (page - 1) * page_size
        found == WhereTodos(rows, q)
        total == Cardinality(found)
        last == IF offset + page_size < total THEN offset + page_size ELSE total
    IN  {[todos |-> SubSeq(seq, offset + 1, last), total |-> total] :
            seq \in OrderBy(found, ResolveSortBy(UnwrapOr(q.sort_by, NoText)),
                            ResolveSortOrder(UnwrapOr(q.sort_order, NoText)))}

\* format!("todos:user:{}:list:{}", user_id, query_params_inner.to_string()).
ListKeyOf(user_id, q) == <<"todos", "user", user_id, "list", TodoQueryParamsDisplay(q)>>

\* Two requests of one user over one table, with the key get_todos reads and
\* writes for each and the answers the Item Store has for each.
ApplyListKey ==
    /\ probe = NoProbe
    /\ \E q1, q2 \in QueryParamInputs, ids \in SUBSET (1 .. MaxQueryRows) :
          LET rows == {QueryRow(i) : i \in ids} IN
          probe' = [fn |-> "list_key", q1 |-> q1, q2 |-> q2, rows |-> ids,
                    key1 |-> ListKeyOf(1, q1), key2 |-> ListKeyOf(1, q2),
                    result1 |-> GetAllTodosPage(rows, q1),
                    result2 |-> GetAllTodosPage(rows, q2)]
    /\ UNCHANGED <<todoVars, userVars, now, pc, loc, resp, budget, issued, connection_manager>>

InitQuery == InitWith(0)

NextQuery == ApplyListKey

SpecQuery == InitQuery /\ [][NextQuery]_vars

\* ------------------------------------------------------------- registration specification
\* Register requests alone, all for the one email of RegEmails.
MaxRegisterRequests == 3

InitRegister == InitWith(MaxRegisterRequests)

NextRegister == \E p \in Procs : Register(p)

SpecRegister == InitRegister /\ [][NextRegister]_vars

\* ------------------------------------------------------------- backup login specification
\* Logins with a backup code of an account that holds a set of them.
MaxBackupRequests == 2

InitBackup == InitEnrolled(MaxBackupRequests)

NextBackup == \E p \in Procs : BackupLogin(p)

SpecBackup == InitBackup /\ [][NextBackup]_vars

\* ------------------------------------------------------------- code replay specification
\* The handlers that call verify_totp, on an account with the second factor
\* on; the requests are answered within one TOTP period.
MaxReplayRequests == 2

InitReplay == InitEnrolled(MaxReplayRequests)

NextReplay ==
    \E p \in Procs : Login(p) \/ Verify2fa(p) \/ Disable2fa(p) \/ GenCodes(p)

SpecReplay == InitReplay /\ [][NextReplay]_vars

\* ------------------------------------------------------------- token expiry specification
\* Refresh requests of a registered user while the clock moves past the
\* lifetime of its tokens and of their token_id records.
MaxExpiryRequests == 2
MaxElapse == 2

\* The instants the clock is looked at: some leeways after the start and after
\* the refresh lifetime.
ExpiryTimes ==
    {T0 + a * Leeway + b * REFRESH_TTL : a \in 0 .. MaxElapse, b \in {0, 1}}

Elapse ==
    /\ \E t \in ExpiryTimes : t > now /\ now' = t
    /\ UNCHANGED <<todoVars, userVars, pc, loc, resp, budget, issued, connection_manager, probe>>

InitExpiry == InitRegistered(MaxExpiryRequests)

NextExpiry == Elapse \/ \E p \in Procs : Refresh(p)

SpecExpiry == InitExpiry /\ [][NextExpiry]_vars

\* ------------------------------------------------------------- cache-aside specification
\* The handlers that read through the cache: register and login on the user
\* cache, get_todos and get_todo on the todo cache.
MaxCacheAsideRequests == 2

\* b@x.io is registered, holds the token pair register gave it and owns one
\* todo; a@x.io is still free to register.
InitCacheAside ==
    /\ users = [u \in UserIds |->
                   IF u = 1 THEN NewRow(1, "b@x.io", Hash("pw2")) ELSE NoUser]
    /\ tokenState = [t \in TokenIds |-> IF t = 1 THEN 1 ELSE NoId]
    /\ tokenExpires = [t \in TokenIds |->
                          IF tokenState[t] = NoId THEN 0 ELSE T0 + REFRESH_TTL]
    /\ userCache = [e \in Emails |->
                       IF e = "b@x.io" THEN UserNew(1, "b@x.io") ELSE NoUser]
    /\ now = T0
    /\ pc = [p \in Procs |-> "idle"]
    /\ loc = [p \in Procs |-> NoLoc]
    /\ resp = [p \in Procs |-> NoResp]
    /\ budget = MaxCacheAsideRequests
    /\ nextToken = 2
    /\ issued = {AccessTokenOf(1), RefreshTokenOf(1, 1)}
    /\ connection_manager = Connected
    /\ redeemCount = [t \in TokenIds |-> 0]
    /\ nextGen = 1
    /\ shown = {}
    /\ regenDone = 0
    /\ enrolled = [u \in UserIds |-> "none"]
    /\ probe = NoProbe
    /\ todos = AddTodo([t \in TodoIds |-> NoTodo], 1, 1, "t1")
    /\ cache = [k \in CacheKeys |-> NoEntry]
    /\ nextTodo = 2
    /\ dbVersion = 1
    /\ shadow = [k \in CacheKeys |-> NoShadow]

NextCacheAside ==
    \E p \in Procs : Register(p) \/ Login(p) \/ GetTodos(p) \/ GetTodo(p)

SpecCacheAside == InitCacheAside /\ [][NextCacheAside]_vars

\* The same requests under the scheduling the executor gives them.  A handler
\* suspended at an await resumes once the awaited call has an answer.  The
\* relational store answers every call.  The awaits of RedisClient
\* (get_conn, GET, SET ... EX) are not wrapped in any timeout, so a handler at
\* one of them resumes only if the cache store answers, with a value or an
\* error; nothing obliges the cache store to.
AwaitsCache ==
    {"reg_token", "reg_cache", "login_cache", "login_setcache", "login_token",
     "gt_cache", "gt_set", "go_cache", "go_set"}

Resume(p) ==
    /\ pc[p] \notin {"idle", "done"} \cup AwaitsCache
    /\ Register(p) \/ Login(p) \/ GetTodos(p) \/ GetTodo(p)

SpecCacheAsideFair ==
    InitCacheAside /\ [][NextCacheAside]_vars /\ \A p \in Procs : WF_vars(Resume(p))

\* ------------------------------------------------------------- cache specification
\* One client of the CacheService calling set_cached, get_cached and
\* delete_cached_by_pattern one call after another while the clock advances.
MaxCacheOps == 2

\* The keys, values and time-to-live the client works with.
ClientKeys == {ListKey(1, [is_completed |-> "none"]), ItemKey(1, 1), ItemKey(2, 1)}
ClientValues == {<<"v1">>, <<"v2">>}
ClientTtl == 2 * TickSeconds
CacheTypes == {"TodoResponse", "TodoResponseList"}

\* The type a handler stores under a key: the list under a list key, one
\* todo under an item key.
TypeOfKey(key) == IF key[4] = "list" THEN "TodoResponseList" ELSE "TodoResponse"

CacheSet ==
    /\ budget > 0
    /\ budget' = budget - 1
    /\ \E key \in ClientKeys, value \in ClientValues, redisOk \in BOOLEAN :
        /\ cache' = IF redisOk
                    THEN SetCached(cache, key, TypeOfKey(key), value, ClientTtl, now, 0)
                    ELSE cache
        /\ shadow' = IF redisOk
                     THEN [shadow EXCEPT ![key] = [state |-> "set", type |-> TypeOfKey(key),
                                                   value |-> value,
                                                   expires |-> now + ClientTtl]]
                     ELSE shadow
        /\ probe' = [fn |-> "set_cached", key |-> key, type |-> TypeOfKey(key),
                     result |-> [kind |-> IF redisOk THEN "ok" ELSE "err", value |-> <<>>]]
    /\ UNCHANGED <<todos, nextTodo, dbVersion, userVars, now, pc, loc, resp, issued, connection_manager>>

CacheGet ==
    /\ \E key \in ClientKeys, type \in CacheTypes, redisOk \in BOOLEAN :
        probe' = [fn |-> "get_cached", key |-> key, type |-> type,
                  result |-> GetCached(cache, key, type, now, redisOk)]
    /\ probe' # probe
    /\ UNCHANGED <<todoVars, userVars, now, pc, loc, resp, budget, issued, connection_manager>>

\* delete_cached_by_pattern run to its end: every SCAN and DEL answered and
\* all matching keys gone, or a call failed after the keys in `gone` were
\* deleted.
CacheDeleteByPattern ==
    /\ budget > 0
    /\ budget' = budget - 1
    /\ \E pattern \in CachePatterns, redisOk \in BOOLEAN :
        LET matching == {k \in CacheKeys : GlobMatch(pattern, k)}
            found == ScanBatch(cache, pattern, CacheKeys, now)
        IN  \E gone \in SUBSET found :
            /\ redisOk => gone = found
            /\ ~redisOk => gone # found \/ found = {}
            /\ cache' = DelKeys(cache, gone)
            /\ shadow' = [k \in CacheKeys |->
                             IF redisOk /\ k \in matching
                             THEN [NoShadow EXCEPT !.state = "deleted"]
                             ELSE IF k \in gone THEN NoShadow ELSE shadow[k]]
            /\ probe' = [fn |-> "delete_cached_by_pattern", key |-> pattern,
                         type |-> "none",
                         result |-> [kind |-> IF redisOk THEN "ok" ELSE "err",
                                     value |-> <<>>]]
    /\ UNCHANGED <<todos, nextTodo, dbVersion, userVars, now, pc, loc, resp, issued, connection_manager>>

InitCache == InitWith(MaxCacheOps)

NextCache == CacheSet \/ CacheGet \/ CacheDeleteByPattern \/ Tick

SpecCache == InitCache /\ [][NextCache]_vars

\* ------------------------------------------------------------- claims

\* C1: under sequential requests, a redemption of an issued refresh token that
\* the cache store answers succeeds if and only if no redemption of that token
\* succeeded before: the first returns the user id the token was issued for
\* and leaves no token_id record, every later one is InvalidRefreshToken; no
\* token is ever redeemed twice.
C1_RedeemOnceSequential ==
    /\ \A t \in TokenIds : redeemCount[t] <= 1
    /\ \A p \in Procs :
        (/\ pc[p] = "done"
         /\ loc[p].kind = "refresh"
         /\ loc[p].token.token_type = "refresh"
         /\ loc[p].redeem # "AuthenticationFailure")
        => IF loc[p].priorRedeems = 0
           THEN /\ loc[p].redeem = "ok"
                /\ loc[p].redeemUser = loc[p].token.user_id
                /\ tokenState[loc[p].token.sub] = NoId
                /\ redeemCount[loc[p].token.sub] = 1
           ELSE /\ loc[p].redeem = "InvalidRefreshToken"
                /\ resp[p].status = "InvalidRefreshToken"
                /\ resp[p].refresh = NoToken

\* A second, sequential redemption of a token has been rejected.
C1_Witness ==
    \E p \in Procs :
        /\ pc[p] = "done"
        /\ loc[p].kind = "refresh"
        /\ loc[p].priorRedeems = 1
        /\ loc[p].redeem = "InvalidRefreshToken"
        /\ redeemCount[loc[p].token.sub] = 1

\* C2: two concurrent redemptions of one refresh token (neither started after
\* a successful redemption of it, both answered by the cache store) end as
\* one success and one InvalidRefreshToken.
C2_ConcurrentRedeemOnce ==
    \A p, q \in Procs :
        (/\ p # q
         /\ pc[p] = "done" /\ pc[q] = "done"
         /\ loc[p].kind = "refresh" /\ loc[q].kind = "refresh"
         /\ loc[p].token = loc[q].token
         /\ loc[p].token.token_type = "refresh"
         /\ loc[p].priorRedeems = 0 /\ loc[q].priorRedeems = 0
         /\ loc[p].redeem # "AuthenticationFailure"
         /\ loc[q].redeem # "AuthenticationFailure")
        => {loc[p].redeem, loc[q].redeem} = {"ok", "InvalidRefreshToken"}

\* C3: a refresh token enters a response only with its token_id -> user_id
\* record in the cache store at that moment; a failed store ends the request
\* with TokenCreationFailure and no token.
C3_StoredBeforeReturned ==
    /\ [][\A t \in issued' \ issued :
             t.token_type = "refresh" => tokenState'[t.sub] = t.user_id]_vars
    /\ [](\A p \in Procs :
             pc[p] = "done" =>
                 /\ loc[p].storeOk = "failed" => resp[p] = Failure("TokenCreationFailure")
                 /\ resp[p].refresh # NoToken => loc[p].storeOk = "ok")

\* A request returned a pair, and another ended on a failed store.
C3_Witness ==
    /\ \E p \in Procs :
        /\ pc[p] = "done"
        /\ resp[p].refresh # NoToken
        /\ tokenState[resp[p].refresh.sub] = resp[p].refresh.user_id
    /\ \E p \in Procs :
        /\ pc[p] = "done"
        /\ loc[p].storeOk = "failed"

\* C4: a login of a registered account whose two-factor flag is false in the
\* User Store, with the account's password and no TOTP code, succeeds and
\* returns an access/refresh pair when every cache-store call is answered.
C4_LoginWithoutSecondFactor ==
    \A p \in Procs :
        (/\ pc[p] = "done"
         /\ loc[p].kind = "login"
         /\ loc[p].code = NoCode
         /\ loc[p].row0 # NoUser
         /\ ~loc[p].row0.two_factor_enabled
         /\ Verify(loc[p].password, loc[p].row0.password) = "match"
         /\ loc[p].redisOk)
        => /\ resp[p].status = "ok"
           /\ resp[p].access # NoToken
           /\ resp[p].refresh # NoToken

\* C5: once a login without second factor has succeeded and enable_2fa has
\* then succeeded, a login with the account's password fails with
\* TwoFactorRequired and no tokens when it carries no code, and succeeds when
\* it carries the current code.
C5_SecondFactorRequiredAfterEnable ==
    \A p \in Procs :
        (/\ pc[p] = "done"
         /\ loc[p].kind = "login"
         /\ loc[p].phase0 = "enabledAfterLogin"
         /\ Verify(loc[p].password, loc[p].row0.password) = "match")
        => /\ loc[p].code = NoCode =>
                /\ resp[p].status = "TwoFactorRequired"
                /\ resp[p].access = NoToken
                /\ resp[p].refresh = NoToken
           /\ (/\ loc[p].code = TotpGenerate(loc[p].row0.two_factor_secret, now)
               /\ loc[p].redisOk)
              => resp[p].status = "ok"

\* C6: of two uses of one backup code through login_with_backup_code, at most
\* one issues a session.
C6_BackupCodeSingleUse ==
    \A p, q \in Procs :
        (/\ p # q
         /\ pc[p] = "done" /\ pc[q] = "done"
         /\ loc[p].kind = "login_with_backup_code"
         /\ loc[q].kind = "login_with_backup_code"
         /\ loc[p].email = loc[q].email
         /\ StripDashes(loc[p].bcode) = StripDashes(loc[q].bcode))
        => ~(resp[p].status = "ok" /\ resp[q].status = "ok")

\* C7: a backup login is accepted only with a code of the newest generation
\* whose generate_backup_codes had completed when the login returned.
C7_OldCodesRejectedAfterRegeneration ==
    \A p \in Procs :
        (/\ pc[p] = "done"
         /\ loc[p].kind = "login_with_backup_code"
         /\ resp[p].status = "ok")
        => StripDashes(loc[p].bcode)[1] >= loc[p].regenAtReturn

\* C8: verify_totp accepts exactly the unaltered codes of the clock's step,
\* the step before it and the step after it.
C8_ThreeStepWindow ==
    probe.fn = "verify_totp" =>
        (probe.result <=> (~probe.altered /\ probe.offset \in -1 .. 1))

\* C9: within login and within login_with_backup_code, a request for an
\* unregistered email and a request for a registered email with a wrong
\* password end with the same error kind.
C9_NoAccountEnumeration ==
    \A p, q \in Procs :
        (/\ p # q
         /\ pc[p] = "done" /\ pc[q] = "done"
         /\ loc[p].kind \in {"login", "login_with_backup_code"}
         /\ loc[p].kind = loc[q].kind
         /\ loc[p].row0 = NoUser
         /\ loc[q].row0 # NoUser
         /\ Verify(loc[q].password, loc[q].row0.password) = "nomatch")
        => resp[p].status = resp[q].status

\* C10: in the User Store, two_factor_enabled implies a two_factor_secret.
C10_EnabledImpliesSecret ==
    \A u \in UserIds :
        users[u].two_factor_enabled => users[u].two_factor_secret # NoId

\* C11: enrollment is Disabled -> PendingSecret -> Enabled: the step that ends a
\* successful enable_2fa leaves the secret stored and the enabled flag false,
\* and the flag of a user turns true only in the step that ends a successful
\* verify_2fa for that user.
C11_EnrollmentStateMachine ==
    [][\A u \in UserIds :
          /\ (\E p \in Procs : /\ pc[p] = "en_write" /\ pc'[p] = "done"
                               /\ loc[p].uuid = u /\ resp'[p].status = "ok")
             => /\ users'[u].two_factor_secret # NoId
                /\ ~users'[u].two_factor_enabled
          /\ (~users[u].two_factor_enabled /\ users'[u].two_factor_enabled)
             => \E p \in Procs : /\ pc[p] = "ver_write" /\ pc'[p] = "done"
                                 /\ loc[p].uuid = u]_vars

\* C12: a get_cached the backend answers returns the value of the last
\* set_cached of that key while its time-to-live has not elapsed and no write
\* came between, and returns none once the time-to-live has elapsed or a
\* delete_cached_by_pattern matching the key has completed.
C12_CacheRoundTrip ==
    (probe.fn = "get_cached" /\ probe.result.kind # "err")
    => LET sh == shadow[probe.key] IN
       /\ (sh.state = "set" /\ now < sh.expires /\ probe.type = sh.type)
          => probe.result = [kind |-> "some", value |-> sh.value]
       /\ (sh.state = "set" /\ now >= sh.expires) => probe.result.kind = "none"
       /\ sh.state = "deleted" => probe.result.kind = "none"

\* A value is read back some time after it was set, after a deletion by
\* pattern that matched other keys.
C12_Witness ==
    /\ probe.fn = "get_cached"
    /\ shadow[probe.key].state = "set"
    /\ probe.type = shadow[probe.key].type
    /\ now > shadow[probe.key].expires - ClientTtl
    /\ now < shadow[probe.key].expires
    /\ probe.result = [kind |-> "some", value |-> shadow[probe.key].value]
    /\ \E k \in CacheKeys : shadow[k].state = "deleted"

\* C13: once a create, update or delete of a todo by user U has returned with
\* its cache invalidation completed, no live entry under todos:user:U: holds a
\* value read from the Todo Store before that write, whatever get_todos and
\* get_todo requests of U ran beside it.
C13_NoStaleEntryAfterWrite ==
    \A p \in Procs :
        (/\ pc[p] = "done"
         /\ loc[p].kind \in {"create_todo", "update_todo", "delete_todo"}
         /\ loc[p].committed
         /\ loc[p].invOk = "ok")
        => \A k \in CacheKeys :
              (GlobMatch(UserPattern(loc[p].user), k) /\ Live(cache, k, now))
              => cache[k].asOf >= loc[p].version

\* C14: get_cached answers a miss, text that does not deserialize and a
\* failure of the cache backend alike: each time it returns none, never an
\* error.
C14_GetCachedNeverErrs ==
    probe.fn = "get_cached"
    => /\ probe.result.kind # "err"
       /\ (\/ ~Live(cache, probe.key, now)
           \/ ~Deserialize(probe.type, cache[probe.key].data).ok)
          => probe.result.kind = "none"

\* What login answers from the relational store alone: the row's password
\* check, the second-factor check, then the token pair if its record stored.
LoginFromStore(l, r) ==
    LET user == GetUserByEmail(l.email)
        v == Verify(l.password, user.password)
        g == TwoFactorGate(user, l.code, now)
    IN  IF user = NoUser THEN r = Failure("InvalidCredentials")
        ELSE IF v = "err" THEN r = Failure("AuthenticationFailure")
        ELSE IF v = "nomatch" THEN r = Failure("InvalidCredentials")
        ELSE IF g # "pass" THEN r = Failure(g)
        ELSE IF l.storeOk = "failed" THEN r = Failure("TokenCreationFailure")
        ELSE /\ r.status = "ok"
             /\ r.access = AccessTokenOf(user.uuid)
             /\ r.refresh.token_type = "refresh"
             /\ r.refresh.user_id = user.uuid

\* What get_todos and get_todo answer from the relational store alone.
TodosFromStore(l, r) ==
    r = TodoResp("ok", "Todos retrieved successfully", GetAllTodos(todos, l.user))

TodoFromStore(l, r) ==
    IF GetOneTodo(todos, l.uuid) = NoTodo
    THEN r = TodoResp("NotFound", "Todo not found", <<>>)
    ELSE r = TodoResp("ok", "Todo retrieved successfully", GetOneTodo(todos, l.uuid))

\* The answer of a finished read-through request, as the relational store
\* alone determines it (for a store not written since the request read it).
AnswerFromStore(p) ==
    /\ (loc[p].kind = "login" /\ loc[p].row0 = GetUserByEmail(loc[p].email))
       => LoginFromStore(loc[p], resp[p])
    /\ (loc[p].kind = "get_todos" /\ loc[p].asOf = dbVersion)
       => TodosFromStore(loc[p], resp[p])
    /\ (loc[p].kind = "get_todo" /\ loc[p].asOf = dbVersion)
       => TodoFromStore(loc[p], resp[p])

\* C15: in login, get_todos and get_todo a get_cached that fails, like one
\* that misses, never reaches the response: the handler reads the relational
\* store and answers what that store alone determines, as with an empty cache.
C15_ReadFailureFallsBack ==
    \A p \in Procs :
        (/\ pc[p] = "done"
         /\ loc[p].kind \in {"login", "get_todos", "get_todo"}
         /\ loc[p].cacheRead \in {"failed", "miss"})
        => AnswerFromStore(p)

\* A login and a get_todos whose cache reads both failed have both answered
\* with success.
C15_Witness ==
    /\ \E p \in Procs :
          /\ pc[p] = "done" /\ loc[p].kind = "login"
          /\ loc[p].cacheRead = "failed" /\ resp[p].status = "ok"
    /\ \E p \in Procs :
          /\ pc[p] = "done" /\ loc[p].kind = "get_todos"
          /\ loc[p].cacheRead = "failed" /\ resp[p].status = "ok"
          /\ resp[p].data.total = 1

\* C16: a set_cached that fails in register, login, get_todos or get_todo is
\* not propagated: the request answers exactly what it answers when the set
\* succeeds, which for register is the token pair and for the others what the
\* relational store determines.
C16_SetFailureNotPropagated ==
    \A p \in Procs :
        (/\ pc[p] = "done"
         /\ loc[p].kind \in {"register", "login", "get_todos", "get_todo"}
         /\ loc[p].setOk = "failed")
        => /\ AnswerFromStore(p)
           /\ loc[p].kind = "register"
              => /\ resp[p].status = "ok"
                 /\ resp[p].access = AccessTokenOf(loc[p].uuid)
                 /\ resp[p].refresh.user_id = loc[p].uuid
           /\ loc[p].kind \in {"get_todos", "get_todo"} => resp[p].status = "ok"

\* A register and a get_todo whose set_cached both failed have both answered
\* with success.
C16_Witness ==
    /\ \E p \in Procs :
          /\ pc[p] = "done" /\ loc[p].kind = "register"
          /\ loc[p].setOk = "failed" /\ resp[p].status = "ok"
    /\ \E p \in Procs :
          /\ pc[p] = "done" /\ loc[p].kind = "get_todo"
          /\ loc[p].setOk = "failed" /\ resp[p].status = "ok"
          /\ resp[p].data.uuid = 1

\* C17: when delete_cached_by_pattern fails, be it at its first call or after
\* some of the matching keys are gone, create_todo, update_todo and
\* delete_todo still answer with success and the change they committed to the
\* Todo Store stays committed.
C17_InvalidationFailureTolerated ==
    \A p \in Procs :
        (/\ pc[p] = "done"
         /\ loc[p].kind \in {"create_todo", "update_todo", "delete_todo"}
         /\ loc[p].invOk = "failed")
        => /\ loc[p].committed
           /\ dbVersion >= loc[p].version
           /\ resp[p] = TodoResp("ok", WriteMessage(loc[p].kind), loc[p].result)
           /\ dbVersion = loc[p].version
              => IF loc[p].kind = "delete_todo"
                 THEN todos[loc[p].uuid] = NoTodo
                 ELSE todos[loc[p].uuid] = resp[p].data

\* An update of the first user's todo answered with success although its
\* invalidation failed after one of the user's two cached keys was deleted.
C17_Witness ==
    \E p \in Procs :
        /\ pc[p] = "done"
        /\ loc[p].kind = "update_todo"
        /\ loc[p].user = 1
        /\ loc[p].invOk = "failed"
        /\ resp[p].status = "ok"
        /\ todos[loc[p].uuid] = resp[p].data
        /\ \E k1, k2 \in {ListKey(1, [is_completed |-> "none"]), ItemKey(1, 1)} :
              ~Live(cache, k1, now) /\ Live(cache, k2, now)

\* C18: token types are not interchangeable.  A refresh request whose token
\* is not of type "refresh" ends with InvalidRefreshToken before any call to
\* the cache store; a todo request whose bearer token is not of type "access"
\* is turned away before its handler runs; every access token handed out has
\* the user id as subject, every refresh token a token id of its own as
\* subject and the user id as a claim beside it.
C18_TokenTypesNotInterchangeable ==
    /\ \A p \in Procs :
          (loc[p].kind = "refresh" /\ loc[p].token.token_type # "refresh")
          => /\ pc[p] \in {"ref_get", "done"}
             /\ loc[p].stored = NoId
             /\ loc[p].redisOk
             /\ pc[p] = "done" => resp[p] = Failure("InvalidRefreshToken")
    /\ \A p \in Procs :
          (loc[p].kind = "get_todos" /\ loc[p].bearer.token_type # "access")
          => /\ pc[p] = "done"
             /\ resp[p].status = "Unauthorized"
             /\ loc[p].cacheRead = "none"
    /\ \A t \in issued :
          /\ t.token_type \in {"access", "refresh"}
          /\ t.token_type = "access" => users[t.sub] # NoUser /\ t.user_id = NoId
          /\ t.token_type = "refresh"
             => /\ t.user_id # NoId
                /\ users[t.user_id] # NoUser
                /\ t.sub < nextToken
                /\ \A t2 \in issued :
                      (t2.token_type = "refresh" /\ t2.sub = t.sub) => t2 = t
    /\ \A p \in Procs :
          (pc[p] = "done" /\ resp[p].status = "ok" /\ resp[p].access # NoToken)
          => /\ resp[p].access = AccessTokenOf(resp[p].refresh.user_id)
             /\ resp[p].refresh = RefreshTokenOf(resp[p].refresh.sub,
                                                 resp[p].access.sub)

\* An access token presented for refresh and a refresh token presented as
\* bearer have both been turned away.
C18_Witness ==
    /\ \E p \in Procs :
          /\ pc[p] = "done" /\ loc[p].kind = "refresh"
          /\ loc[p].token.token_type = "access"
          /\ resp[p] = Failure("InvalidRefreshToken")
    /\ \E p \in Procs :
          /\ pc[p] = "done" /\ loc[p].kind = "get_todos"
          /\ loc[p].bearer.token_type = "refresh"
          /\ resp[p].msg = "Invalid token type"

\* C19: when the cache store answers a redemption with a record whose user id
\* differs from the token's user_id claim, the refresh request fails with
\* InvalidRefreshToken and hands out no token pair.
C19_MismatchedRecordRejected ==
    \A p \in Procs :
        (/\ loc[p].kind = "refresh"
         /\ loc[p].stored # NoId
         /\ loc[p].stored # loc[p].token.user_id
         /\ loc[p].redisOk)
        => /\ pc[p] \in {"ref_del", "done"}
           /\ pc[p] = "done" => resp[p] = Failure("InvalidRefreshToken")

\* A refresh token pairing the first user's token id with the second user's
\* id was refused after the cache store returned the first user's record.
C19_Witness ==
    \E p \in Procs :
        /\ pc[p] = "done"
        /\ loc[p].kind = "refresh"
        /\ loc[p].token = RefreshTokenOf(1, 2)
        /\ loc[p].stored = 1
        /\ loc[p].redisOk
        /\ tokenState[1] = NoId
        /\ resp[p] = Failure("InvalidRefreshToken")

\* C20: a cache store that fails is never turned into a session.  A refresh
\* whose validate_refresh_token met the failure answers AuthenticationFailure;
\* a register, login, refresh or backup login whose generate_token_pair met it
\* answers TokenCreationFailure; neither answer carries a token, and every
\* answer that does carry tokens had its record stored.
C20_CacheFailureNeverASession ==
    \A p \in Procs :
        /\ (loc[p].kind = "refresh" /\ ~loc[p].redisOk /\ loc[p].storeOk = "none")
           => /\ pc[p] = "done"
              /\ resp[p] = Failure("AuthenticationFailure")
        /\ (/\ loc[p].kind \in {"register", "login", "refresh", "login_with_backup_code"}
            /\ loc[p].storeOk = "failed")
           => /\ pc[p] = "done"
              /\ resp[p] = Failure("TokenCreationFailure")
        /\ (/\ loc[p].kind \in {"register", "login", "refresh", "login_with_backup_code"}
            /\ pc[p] = "done"
            /\ (resp[p].access # NoToken \/ resp[p].refresh # NoToken))
           => /\ loc[p].storeOk = "ok"
              /\ resp[p].status = "ok"

\* A backup login failed with TokenCreationFailure after its code was
\* consumed, and a refresh failed with AuthenticationFailure.
C20_Witness ==
    /\ \E p \in Procs :
          /\ pc[p] = "done" /\ loc[p].kind = "login_with_backup_code"
          /\ loc[p].storeOk = "failed"
          /\ resp[p] = Failure("TokenCreationFailure")
    /\ \E p \in Procs :
          /\ pc[p] = "done" /\ loc[p].kind = "refresh"
          /\ ~loc[p].redisOk /\ loc[p].storeOk = "none"
          /\ resp[p] = Failure("AuthenticationFailure")

\* C21: redemption answers a refresh token past its expiry, one whose record
\* was consumed and one whose record ran out of its time-to-live alike: each
\* fails with InvalidRefreshToken.
C21_ExpiredAndUsedAlike ==
    \A p \in Procs :
        (/\ pc[p] = "done"
         /\ loc[p].kind = "refresh"
         /\ loc[p].token.token_type = "refresh"
         /\ loc[p].why \in {"expired", "norecord", "ttl"})
        => resp[p] = Failure("InvalidRefreshToken")

\* One refresh met a token past its expiry and another a token still inside
\* the leeway whose record had run out of its time-to-live.
C21_Witness ==
    /\ \E p \in Procs :
          /\ pc[p] = "done" /\ loc[p].why = "expired"
          /\ resp[p] = Failure("InvalidRefreshToken")
    /\ \E p \in Procs :
          /\ pc[p] = "done" /\ loc[p].why = "ttl"
          /\ resp[p] = Failure("InvalidRefreshToken")

\* C22: a login whose password verification fails on a malformed stored
\* digest is answered like a non-matching password, with InvalidCredentials.
C22_MalformedDigestIsNonMatch ==
    \A p \in Procs :
        (/\ pc[p] = "done"
         /\ loc[p].kind = "login"
         /\ loc[p].user # NoUser
         /\ Verify(loc[p].password, loc[p].user.password) = "err")
        => resp[p] = Failure("InvalidCredentials")

\* C23: regenerating the backup codes replaces the stored set in one step: an
\* account that held codes when the regeneration read it never stands without
\* codes while the regeneration is under way.
C23_RegenerationAtomic ==
    \A p \in Procs :
        (/\ pc[p] = "gbc_write"
         /\ loc[p].row0.backup_codes_some
         /\ Len(loc[p].row0.backup_codes) > 0)
        => /\ users[loc[p].uuid].backup_codes_some
           /\ Len(users[loc[p].uuid].backup_codes) > 0

\* C24: login_with_backup_code takes the matched digest out of the persisted
\* set before it issues the session: the only step into generate_token_pair is
\* the update that wrote the set without the digest, a session is answered only
\* from there, and a request whose update failed ends without a pair and
\* without a stored token record.
C24_DigestRemovedBeforeSession ==
    [][\A p \in Procs :
          /\ (pc[p] # "bk_token" /\ pc'[p] = "bk_token")
             => /\ pc[p] = "bk_update"
                /\ loc'[p].wrote = "ok"
                /\ \A i \in 1 .. Len(users'[loc[p].user.uuid].backup_codes) :
                      users'[loc[p].user.uuid].backup_codes[i]
                         # loc[p].user.backup_codes[loc[p].index]
          /\ (/\ loc'[p].kind = "login_with_backup_code"
              /\ pc[p] # "done" /\ pc'[p] = "done"
              /\ resp'[p].status = "ok")
             => pc[p] = "bk_token" /\ loc[p].wrote = "ok"
          /\ (pc[p] = "bk_update" /\ loc'[p].wrote = "failed")
             => /\ pc'[p] = "done"
                /\ resp'[p].status # "ok"
                /\ resp'[p].refresh = NoToken /\ resp'[p].access = NoToken
                /\ UNCHANGED <<users, tokenState, nextToken, issued>>
      ]_vars

\* One backup login was answered with a session after its update took the
\* digest out of the stored set, and another ended at a failed update.
C24_Witness ==
    /\ \E p \in Procs :
          /\ pc[p] = "done" /\ loc[p].kind = "login_with_backup_code"
          /\ loc[p].wrote = "ok" /\ resp[p].status = "ok"
          /\ resp[p].refresh.token_type = "refresh"
    /\ \E p \in Procs :
          /\ pc[p] = "done" /\ loc[p].kind = "login_with_backup_code"
          /\ loc[p].wrote = "failed" /\ resp[p] = Failure("DatabaseError")

\* C25: verify_totp keeps nothing about the codes it has seen.  The step of
\* login, verify_2fa, disable_2fa or generate_backup_codes that passes its code
\* check writes neither the User Store nor the token records, and a code the
\* authenticator shows now or showed one period ago is never turned away as
\* invalid, whatever requests were answered with it before.
C25_TotpVerificationStateless ==
    [][\A p \in Procs :
          pc[p] \in {"login_cache", "login_setcache", "ver_get", "dis_get", "gbc_get"}
          => /\ pc'[p] \in {"login_token", "ver_write", "dis_write", "gbc_clear"}
                => UNCHANGED <<users, tokenState, tokenExpires>>
             /\ (/\ pc'[p] = "done"
                 /\ resp'[p] \in {Failure("InvalidTwoFactorCode"),
                                  BadRequest("Invalid 2FA code")})
                => loc[p].code \notin
                      {TotpGenerate(loc'[p].user.two_factor_secret, now),
                       TotpGenerate(loc'[p].user.two_factor_secret, now - TOTP_PERIOD)}
      ]_vars

\* Two logins of the account were answered with a session each for one and the
\* same code.
C25_Witness ==
    /\ \A p \in Procs :
          /\ pc[p] = "done" /\ loc[p].kind = "login"
          /\ loc[p].user.two_factor_enabled
          /\ loc[p].code = TotpGenerate(loc[p].user.two_factor_secret, T0)
          /\ resp[p].status = "ok"
    /\ resp["w1"].refresh.sub # resp["w2"].refresh.sub

\* C26: every request a worker has accepted is eventually answered, also when
\* a call to the cache store never gets a response.
C26_EveryRequestCompletes ==
    \A p \in Procs : (pc[p] \notin {"idle", "done"}) ~> (pc[p] = "done")

\* C27: delete_cached_by_pattern only takes keys away, and only keys its
\* pattern matches: every step leaves each cache key as it was or, in the DEL
\* of a sweep whose pattern matches the key, without an entry.  Stopped after
\* any number of batches, the cache holds a part of what it held before.
C27_SweepOnlyRemovesMatching ==
    [][\A k \in CacheKeys :
          \/ cache'[k] = cache[k]
          \/ /\ cache'[k] = NoEntry
             /\ \E p \in Procs :
                   /\ pc[p] = "inv_del"
                   /\ pc'[p] # "inv_del"
                   /\ GlobMatch(UserPattern(loc[p].user), k)
      ]_vars

\* A sweep for the first user stopped at a failed call after it had deleted
\* one of the user's two cached keys: the other is still there, and so is the
\* second user's list.
C27_Witness ==
    \E p \in Procs :
        /\ pc[p] = "done"
        /\ loc[p].user = 1
        /\ loc[p].invOk = "failed"
        /\ \E k1, k2 \in {ListKey(1, [is_completed |-> "none"]), ItemKey(1, 1)} :
              cache[k1] = NoEntry /\ cache[k2] = SweepCache[k2]
        /\ cache[ListKey(2, [is_completed |-> "none"])]
              = SweepCache[ListKey(2, [is_completed |-> "none"])]
        /\ \A k \in CacheKeys : cache[k] \in {SweepCache[k], NoEntry}

\* C28: a register request for an email that a user already has ends with
\* UserAlreadyExists, and no two rows of the User Store ever hold the same
\* email, also when two register requests for one new email run side by side.
C28_EmailsUnique ==
    /\ \A p \in Procs :
          (pc[p] = "done" /\ loc[p].kind = "register" /\ loc[p].taken)
          => resp[p] = Failure("UserAlreadyExists")
    /\ \A u, v \in UserIds :
          (u # v /\ users[u] # NoUser /\ users[v] # NoUser)
          => users[u].email # users[v].email

\* Of two register requests for the same new email that both passed the
\* existence checks, one created the user and the other was refused at its
\* INSERT; there is one row with the email.
C28_Witness ==
    /\ loc["w1"].kind = "register" /\ loc["w2"].kind = "register"
    /\ loc["w1"].email = loc["w2"].email
    /\ ~loc["w1"].taken /\ ~loc["w2"].taken
    /\ \E p, q \in Procs :
          /\ pc[p] = "done" /\ resp[p].status = "ok"
          /\ pc[q] = "done" /\ resp[q] = Failure("UserCreationFailure")
    /\ Cardinality({u \in UserIds : users[u].email = loc["w1"].email}) = 1

\* The order a list is asked for: ascending for "asc" in any case, else
\* descending.
C29_Direction ==
    IF probe.sort_order \in {"asc", "ASC"} THEN "ASC" ELSE "DESC"

C29_Complete ==
    /\ Len(probe.result) = Cardinality(probe.rows)
    /\ {probe.result[i].uuid : i \in 1 .. Len(probe.result)} = probe.rows

\* C29: a sort_by outside {created_at, updated_at, title, completed} falls
\* back to created_at, every value inside the set sorts the list by that field
\* (completed by the completion flag), and every sort_by yields the list.
C29_SortByClaimedSet ==
    probe.fn = "get_all_todos"
    => /\ C29_Complete
       /\ InOrder(probe.result,
                  IF probe.sort_by \in {"created_at", "updated_at", "title"}
                  THEN probe.sort_by
                  ELSE IF probe.sort_by = "completed" THEN "is_completed"
                  ELSE "created_at",
                  C29_Direction)

\* C29 as amended: the set is {created_at, updated_at, title, is_completed}.
C29_SortByWhitelist ==
    probe.fn = "get_all_todos"
    => /\ C29_Complete
       /\ InOrder(probe.result,
                  IF probe.sort_by \in {"created_at", "updated_at", "title",
                                        "is_completed"}
                  THEN probe.sort_by ELSE "created_at",
                  C29_Direction)

\* Three rows listed by title, in an order that is not the order of their
\* creation either way.
C29_Witness ==
    /\ probe.fn = "get_all_todos"
    /\ probe.sort_by = "title"
    /\ Len(probe.result) = MaxSortRows
    /\ InOrder(probe.result, "title", "ASC")
    /\ ~InOrder(probe.result, "created_at", "ASC")
    /\ ~InOrder(probe.result, "created_at", "DESC")

\* C30: no get_todo, update_todo or delete_todo request of one user returns,
\* changes or deletes a todo whose owner is another user.
C30_TenantIsolation ==
    [][\A p \in Procs :
          /\ (/\ loc'[p].kind = "get_todo"
              /\ pc[p] # "done" /\ pc'[p] = "done"
              /\ resp'[p].status = "ok")
             => resp'[p].data.owner_id = loc'[p].user
          /\ (pc[p] \in {"ut_write", "dt_delete"} /\ todos' # todos)
             => todos[loc[p].uuid].owner_id = loc[p].user
      ]_vars

\* C31: whenever the cache entry user:email:<e> exists, its password hash,
\* two_factor_enabled flag and two_factor_secret equal those of the User Store
\* record for email e.
C31_UserCacheCoherent ==
    \A e \in Emails :
        userCache[e] # NoUser =>
            \E u \in UserIds :
                /\ users[u].email = e
                /\ userCache[e].password = users[u].password
                /\ userCache[e].two_factor_enabled = users[u].two_factor_enabled
                /\ userCache[e].two_factor_secret = users[u].two_factor_secret

\* C32: two get_todos requests of one user for which the Item Store returns
\* different results never map to the same list cache key.
C32_ListKeyInjective ==
    probe.fn = "list_key" =>
        (probe.result1 # probe.result2 => probe.key1 # probe.key2)

\* C33: a refresh request that has consumed the presented token's record
\* either returns a new pair whose refresh token has a stored record, or, if
\* it fails, leaves the presented refresh token redeemable.
C33_RefreshAllOrNothing ==
    [][\A p \in Procs :
          (/\ loc[p].kind = "refresh"
           /\ loc[p].redeem = "ok"
           /\ pc[p] # "done" /\ pc'[p] = "done")
          => IF resp'[p].status = "ok"
             THEN tokenState'[resp'[p].refresh.sub] = resp'[p].refresh.user_id
             ELSE tokenState'[loc[p].token.sub] = loc[p].token.user_id
      ]_vars

\* C34: when validate_refresh_token returns InvalidRefreshToken because the
\* stored user id disagrees with the token's user_id claim, the cache store is
\* unchanged: the token_id record is still present afterwards.
C34_FailedRedemptionKeepsRecord ==
    [][\A p \in Procs :
          (/\ pc[p] = "ref_del" /\ pc'[p] = "done"
           /\ loc[p].stored # loc[p].token.user_id
           /\ resp'[p].status = "InvalidRefreshToken")
          => /\ tokenState' = tokenState
             /\ tokenState'[loc[p].token.sub] # NoId
      ]_vars

\* C35: a login with a wrong password fails with InvalidCredentials whatever
\* the user's 2FA state and totp_code are, and TwoFactorRequired and
\* InvalidTwoFactorCode are returned only to requests that presented the
\* correct password.
C35_PasswordBeforeSecondFactor ==
    \A p \in Procs :
        (pc[p] = "done" /\ loc[p].kind = "login") =>
            LET correct == /\ loc[p].row0 # NoUser
                           /\ loc[p].row0.password = Hash(loc[p].password)
            IN  /\ ~correct => resp[p].status = "InvalidCredentials"
                /\ resp[p].status \in {"TwoFactorRequired", "InvalidTwoFactorCode"}
                      => correct

\* C36: disable_2fa sets two_factor_enabled to false and clears
\* two_factor_secret but leaves the stored backup_codes unchanged; the stored
\* codes change only when login_with_backup_code removes the code it was
\* given, and a code still stored is accepted by login_with_backup_code once
\* the second factor is on again.
C36_DisableKeepsBackupCodes ==
    [][\A p \in Procs :
          /\ (pc[p] = "dis_write" /\ pc'[p] # pc[p]) =>
                users' = [users EXCEPT ![loc[p].uuid].two_factor_enabled = FALSE,
                                       ![loc[p].uuid].two_factor_secret = NoId]
          /\ (pc[p] # pc'[p] /\ pc[p] \notin {"bk_update"}) =>
                \A u \in UserIds :
                    /\ users'[u].backup_codes = users[u].backup_codes
                    /\ users'[u].backup_codes_some = users[u].backup_codes_some
          /\ (/\ pc[p] = "bk_get" /\ pc'[p] # pc[p]
              /\ \E u \in UserIds :
                    /\ users[u].email = loc[p].email
                    /\ users[u].password = Hash(loc[p].password)
                    /\ users[u].two_factor_enabled
                    /\ \E i \in 1 .. Len(users[u].backup_codes) :
                          users[u].backup_codes[i] = Sha256Hex(StripDashes(loc[p].bcode)))
             => pc'[p] = "bk_update"
      ]_vars

\* A backup code issued before a disable opens a session after the second
\* factor was turned off and on again (under a new secret), with no
\* regeneration in between.
C36_Witness ==
    \E p \in Procs :
        /\ pc[p] = "done" /\ loc[p].kind = "login_with_backup_code"
        /\ resp[p].status = "ok"
        /\ loc[p].bcode \in {FormatBackupCode(GenerateBackupCodes(1).plain[i]) :
                                i \in 1 .. BackupCodesCount}
        /\ loc[p].user.two_factor_enabled
        /\ loc[p].user.two_factor_secret = 2
        /\ regenDone = 1

\* C37: a login or login_with_backup_code request that returns an error
\* (validation, InvalidCredentials, TwoFactorRequired, InvalidTwoFactorCode, or
\* a refusal of login_with_backup_code such as an invalid backup code) has
\* stored no token_id record and has not changed the user's backup-code set or
\* 2FA fields.
C37_NoCredentialsWithoutAuthentication ==
    [][\A p \in Procs :
          (/\ pc[p] # "done" /\ pc'[p] = "done"
           /\ loc'[p].kind \in {"login", "login_with_backup_code"}
           /\ resp'[p].status \in {"ValidationError", "InvalidCredentials",
                                   "TwoFactorRequired", "InvalidTwoFactorCode",
                                   "BadRequest"})
          => /\ tokenState' = tokenState
             /\ users' = users
             /\ loc'[p].storeOk = "none"
             /\ loc'[p].wrote = "none"
      ]_vars

\* A login turned down for its code and a backup login turned down for its
\* backup code have both returned, and nothing was stored or changed.
C37_Witness ==
    \E p, q \in Procs :
        /\ pc[p] = "done" /\ loc[p].kind = "login"
        /\ resp[p].status = "InvalidTwoFactorCode"
        /\ pc[q] = "done" /\ loc[q].kind = "login_with_backup_code"
        /\ resp[q] = BadRequest("Invalid backup code")
        /\ tokenState = [t \in TokenIds |-> IF t = 1 THEN 1 ELSE NoId]
        /\ Len(users[1].backup_codes) = BackupCodesCount

\* C38: under concurrent callers of get_conn at most one ConnectionManager is
\* successfully created over the client's lifetime, every successful caller
\* receives a clone of that same manager, and a failed creation leaves the
\* Option empty (so a later call tries again).
C38_OneConnectionManager ==
    [][/\ connection_manager'.created <= 1
       /\ \A p \in Procs :
             /\ (/\ pc'[p] = "done" /\ loc'[p].kind = "get_conn"
                 /\ resp'[p].status = "ok")
                => /\ loc'[p].manager # NoId
                   /\ loc'[p].manager = connection_manager'.slot
                   /\ \A q \in Procs :
                         (/\ pc'[q] = "done" /\ loc'[q].kind = "get_conn"
                          /\ resp'[q].status = "ok")
                         => loc'[q].manager = loc'[p].manager
             /\ (/\ pc[p] = "conn_new" /\ pc'[p] = "done"
                 /\ resp'[p].status # "ok")
                => /\ connection_manager'.slot = NoId
                   /\ connection_manager'.holder = "none"
      ]_vars

\* One caller's ConnectionManager::new failed and a later caller created the
\* manager.
C38_Witness ==
    \E p, q \in Procs :
        /\ pc[p] = "done" /\ loc[p].kind = "get_conn"
        /\ resp[p].status = "RedisError"
        /\ pc[q] = "done" /\ loc[q].kind = "get_conn"
        /\ resp[q].status = "ok" /\ loc[q].manager = 1
        /\ connection_manager = Connected

\* C39: delete_cached_by_pattern ends with success exactly when a SCAN reply
\* returned cursor 0, after the keys of that last reply were deleted, and its
\* return value is then the sum of the DEL counts over all batches.
C39_LoopEndsAtCursorZero ==
    [][\A p \in Procs :
          (loc[p].kind = "delete_cached_by_pattern" /\ pc'[p] # pc[p]
           /\ pc[p] \in {"dp_scan", "dp_del"} /\ resp'[p].status # "RedisError")
          => /\ (pc'[p] = "done") = (loc'[p].cursor = 0 /\ pc'[p] # "dp_del")
             /\ pc'[p] = "dp_del" => (pc[p] = "dp_scan" /\ loc'[p].batch # {})
             /\ pc[p] = "dp_del" =>
                   \A k \in loc[p].batch : cache'[k] = NoEntry
             /\ pc'[p] = "done" =>
                   /\ resp'[p].status = "ok"
                   /\ loc'[p].result = SumSeq(loc'[p].dels)
      ]_vars

\* A call that needed more than one batch has returned a count that is less
\* than the number of keys its SCANs reported: another call removed a key in
\* between.
C39_Witness ==
    \E p \in Procs :
        /\ pc[p] = "done" /\ loc[p].kind = "delete_cached_by_pattern"
        /\ resp[p].status = "ok"
        /\ Len(loc[p].dels) >= 2
        /\ loc[p].result >= 1
        /\ \E i \in 1 .. Len(loc[p].dels) : loc[p].dels[i] = 0

====
